---- MODULE Spec2Model ----
(***************************************************************************)
(* Model of the recurring-task and reminder pipeline of the to-do backend. *)
(*                                                                         *)
(* The store (tables tasks, reminders, audit_log_entries), the two pub/sub *)
(* topics and the external job scheduler are the state; every handler of   *)
(* the backend and of the recurring-task worker is one action.  The       *)
(* handlers' store calls are synchronous, so a handler runs without        *)
(* interruption up to its first await, which in every handler below comes  *)
(* after its last store write or is the call to the bus or the scheduler   *)
(* whose outcome is an input of the action.                                *)
(*                                                                         *)
(* Columns no handler below branches on (title, description, priority,     *)
(* tags, project_id, user_id, timestamps other than completed_at) are not  *)
(* part of the rows.                                                       *)
(***************************************************************************)
EXTENDS Integers, Sequences, FiniteSets, TLC

VARIABLES
    tasks,            \* tasks table: id -> row
    next_task_id,     \* next value of the tasks.id sequence
    audit,            \* audit_log_entries table, in insertion order
    task_events,      \* envelopes accepted by the bus on topic task-events
    reminders,        \* reminders table: id -> row
    reminder_events,  \* envelopes accepted by the bus on topic reminders
    jobs,             \* job ids registered with the external job scheduler
    stats,            \* TaskEventConsumer._stats
    in_flight,        \* requests suspended at an await or between two
                      \* store statements, see RaceSpec
    workers,          \* the notification service and the consume loops of
                      \* the two worker services, see Workers
    resp              \* the response of the last request, see Responses

vars == <<tasks, next_task_id, audit, task_events, reminders,
          reminder_events, jobs, stats, in_flight, workers, resp>>

(***************************************************************************)
(* Bounds of the model.                                                    *)
(***************************************************************************)
MaxTasks == 2
MaxAudit == 2
MaxReminders == 1
MaxPublished == 2
MaxStats == 2

TaskIds == 1..MaxTasks
\* The instants a handler's clock reads.  No handler below compares two
\* timestamps, so one instant stands for all of them.
Times == {1}
ReminderIds == 1..MaxReminders
\* The instants the job client's clock reads when it builds a job id: two,
\* so that two calls can read the same instant or different ones.
Clock == {1, 2}

\* Python None for an integer id or a timestamp; ids and timestamps are >= 1.
None == 0
\* Python None for a job id (job ids are tuples, see JobId).
NoJob == <<>>

\* A request in flight: the handler, and the locals it holds at the point
\* where it is suspended.
Call(op, reminder_id, task_id, job_id) ==
    [op |-> op, reminder_id |-> reminder_id, task_id |-> task_id,
     job_id |-> job_id]
NoCall == Call("none", None, None, NoJob)
\* No cancel request and no job callback is in flight.
NoCalls == [cancel |-> NoCall, trigger |-> NoCall]

(***************************************************************************)
(* Workers: the notification service (services/notification) and the       *)
(* consume loops of the two worker services.                               *)
(*   active_connections  ConnectionManager.active_connections: the keys    *)
(*            the dict holds, each with its set of sockets                 *)
(*   accepted the sockets whose endpoint has called connect                *)
(*   gone     the sockets whose peer has gone: send_text raises on them    *)
(*            and their endpoint has left its receive loop                 *)
(*   _stats   ReminderEventConsumer._stats                                 *)
(*   sends    per caller, its call of send_personal_message suspended at   *)
(*            `await ws.send_text`, NoSend if it has none, see Send        *)
(*   handled  the number of deliveries _handle_event has returned from     *)
(*   successful  the sends that succeeded in the calls process_event made  *)
(*   consumers  per consumer, is_running, where start_consuming stands and *)
(*            whether stop() has been called                               *)
(***************************************************************************)
\* A Python value used as a user id: the int n or the str of n's digits.
\* 1 and "1" are different keys of a dict.
UserId(type, id) == [type |-> type, id |-> id]

\* A WebSocket object: the user_id of the path it was opened on and a
\* serial number.  NoSocket is None.
WebSocket(user_id, n) == [user_id |-> user_id, n |-> n]
NoSocket == WebSocket(UserId("str", 0), 0)

NotificationStats ==
    [events_received |-> 0, notifications_sent |-> 0, errors_count |-> 0]

\* The locals of a call of send_personal_message suspended in its loop:
\* the copy of the user's set it iterates over, the sockets of the copy it
\* has not sent to yet, and its two accumulators.
Send(caller, data, user_id, copy) ==
    [caller |-> caller, data |-> data, user_id |-> user_id, copy |-> copy,
     todo |-> copy, successful |-> 0, disconnected |-> {}]
NoSend == Send("none", None, UserId("str", 0), {})

\* The callers of send_personal_message that can be suspended at once.
Callers == 1..2

ConsumerNames == {"ReminderEventConsumer", "TaskEventConsumer"}

\* A consumer after __init__, its start_consuming task created and not yet
\* run.
Consumer == [is_running |-> FALSE, loop |-> "created", stopped |-> FALSE]

NoWorkers ==
    [active_connections |-> <<>>, accepted |-> {}, gone |-> {},
     _stats |-> NotificationStats, sends |-> [c \in Callers |-> NoSend],
     handled |-> 0, successful |-> 0,
     consumers |-> [c \in ConsumerNames |-> Consumer]]

(***************************************************************************)
(* enums.py                                                                *)
(***************************************************************************)
PENDING == "pending"
COMPLETED == "completed"
TaskStatusEnum == {PENDING, COMPLETED}

RecurrenceEnum == {"none", "daily", "weekly", "monthly"}

SENT == "sent"
FAILED == "failed"
CANCELLED == "cancelled"
ReminderStatusEnum == {PENDING, SENT, FAILED, CANCELLED}

(***************************************************************************)
(* Rows                                                                    *)
(***************************************************************************)
\* models.Task with the column defaults: status PENDING, completed_at NULL;
\* due_date is NULL unless the row is given one.
Task(recurrence, parent_task_id) ==
    [status |-> PENDING, completed_at |-> None, due_date |-> None,
     recurrence |-> recurrence, parent_task_id |-> parent_task_id]

\* One audit_log_entries row; data is the event_data the claims read.
AuditLogEntry(event_type, task_id, data) ==
    [event_type |-> event_type, task_id |-> task_id, data |-> data]

NoData == [old_status |-> "", new_status |-> "", is_recurring |-> FALSE,
           recurrence |-> ""]

\* TaskService._create_audit_entry: insert and commit one entry.
_create_audit_entry(log, event_type, task_id, data) ==
    Append(log, AuditLogEntry(event_type, task_id, data))

(***************************************************************************)
(* Timestamps.  A datetime is the number of minutes since 2023-12-31T00:00 *)
(* UTC, so that day 1 is Monday 2024-01-01 and None (0) is no datetime a   *)
(* row holds.  The Gregorian rules below are those of datetime for the     *)
(* years 1901..2099.                                                       *)
(***************************************************************************)
MINUTES_PER_DAY == 1440

\* The years a decoded datetime is looked up in.
Years == 2023..2027

\* calendar: the number of days of month `month` of year `year`.
days_in_month(year, month) ==
    IF month = 2
    THEN IF year % 4 = 0 /\ (year % 100 # 0 \/ year % 400 = 0) THEN 29 ELSE 28
    ELSE IF month \in {4, 6, 9, 11} THEN 30 ELSE 31

\* The day number of the last day of the year before `year`.
days_before_year(year) == 365 * (year - 2024) + ((year - 2021) \div 4)

\* The number of days of `year` before the first of `month`.
days_before_month(year, month) ==
    <<0, 31, 59, 90, 120, 151, 181, 212, 243, 273, 304, 334>>[month]
    + (IF month > 2 /\ days_in_month(year, 2) = 29 THEN 1 ELSE 0)

\* datetime(year, month, day) plus `minute` minutes past midnight.
datetime(year, month, day, minute) ==
    (days_before_year(year) + days_before_month(year, month) + day)
        * MINUTES_PER_DAY + minute

\* The attributes year, month, day of a datetime, and its time of day.
fields(dt) ==
    LET ordinal == dt \div MINUTES_PER_DAY
        y == CHOOSE yy \in Years :
                 /\ days_before_year(yy) < ordinal
                 /\ ordinal <= days_before_year(yy + 1)
        rest == ordinal - days_before_year(y)
        m == CHOOSE mm \in 1..12 :
                 /\ days_before_month(y, mm) < rest
                 /\ rest <= days_before_month(y, mm) + days_in_month(y, mm)
    IN  [year |-> y, month |-> m, day |-> rest - days_before_month(y, m),
         minute |-> dt % MINUTES_PER_DAY]

\* datetime.weekday(): Monday is 0, Sunday is 6.
weekday(dt) == ((dt \div MINUTES_PER_DAY) - 1) % 7

\* timedelta(days=days), to be added to a datetime.
timedelta(days) == days * MINUTES_PER_DAY

\* dt + relativedelta(months=1): the month after, the day cut down to the
\* length of that month.
relativedelta_month(dt) ==
    LET f == fields(dt)
        y == IF f.month = 12 THEN f.year + 1 ELSE f.year
        m == IF f.month = 12 THEN 1 ELSE f.month + 1
        d == IF f.day > days_in_month(y, m) THEN days_in_month(y, m)
                                            ELSE f.day
    IN  datetime(y, m, d, f.minute)

(***************************************************************************)
(* utils/recurrence_calculator.py                                          *)
(***************************************************************************)
\* RecurrenceCalculator._next_daily.
_next_daily(completed_at) == completed_at + timedelta(1)

\* Python None for a day selector: weekday 0 and day-of-month 0 are
\* selectors, so an absent one is kept apart from them.
NoDay == -1

\* _next_weekly that never passes the current week's end.
_next_weekly_same_week(completed_at, target_day) ==
    LET current_day == weekday(completed_at)
        target == IF target_day = NoDay THEN current_day ELSE target_day
    IN  completed_at + timedelta(target - current_day)

\* RecurrenceCalculator._next_weekly; target_day None is the weekday of
\* completed_at.
_next_weekly(completed_at, target_day) ==
    LET current_day == weekday(completed_at)
        target == IF target_day = NoDay THEN current_day ELSE target_day
        days_ahead == target - current_day
    IN  completed_at + timedelta(IF days_ahead <= 0 THEN days_ahead + 7
                                                    ELSE days_ahead)

\* _get_last_day_of_month without the step back of one day.
_get_last_day_of_month_first_of_next(dt) ==
    LET f == fields(dt)
    IN  IF f.month = 12
        THEN datetime(f.year + 1, 1, 1, f.minute)
        ELSE datetime(f.year, f.month + 1, 1, f.minute)

\* RecurrenceCalculator._get_last_day_of_month: the first of the month
\* after dt's, minus one day; the time of day is dt's.
_get_last_day_of_month(dt) ==
    LET f == fields(dt)
        next_month == IF f.month = 12
                      THEN datetime(f.year + 1, 1, 1, f.minute)
                      ELSE datetime(f.year, f.month + 1, 1, f.minute)
    IN  next_month - timedelta(1)

\* _next_monthly that counts a day the month does not have into the month
\* after it.
_next_monthly_overflow(completed_at, target_day) ==
    LET next_month == relativedelta_month(completed_at)
        f == fields(next_month)
        target == IF target_day = NoDay THEN fields(completed_at).day
                                        ELSE target_day
    IN  IF target_day = 0
        THEN _get_last_day_of_month(next_month)
        ELSE datetime(f.year, f.month, target, f.minute)

\* RecurrenceCalculator._next_monthly.  replace(day=...) raises ValueError
\* for a day the month does not have, and the handler at lines 107-109
\* answers with the month's last day.
_next_monthly(completed_at, target_day) ==
    LET next_month == relativedelta_month(completed_at)
        f == fields(next_month)
        target == IF target_day = NoDay THEN fields(completed_at).day
                                         ELSE target_day
    IN  IF target_day = 0
        THEN _get_last_day_of_month(next_month)
        ELSE IF target \in 1..days_in_month(f.year, f.month)
        THEN datetime(f.year, f.month, target, f.minute)
        ELSE _get_last_day_of_month(next_month)

\* RecurrenceCalculator.calculate_next_due_date; None for frequency "none"
\* and for a frequency that is none of the three names.
calculate_next_due_date(current_due_date, frequency, day_of_week, day_of_month) ==
    IF frequency = "none" THEN None
    ELSE IF frequency = "daily" THEN _next_daily(current_due_date)
    ELSE IF frequency = "weekly"
    THEN _next_weekly(current_due_date, day_of_week)
    ELSE IF frequency = "monthly"
    THEN _next_monthly(current_due_date, day_of_month)
    ELSE None


(***************************************************************************)
(* Responses.  resp is the response of the last request when that request  *)
(* went to a handler whose response a property below reads (the two        *)
(* complete handlers, the worker's event handler, the cancel handlers and  *)
(* the job callbacks), and NoResp after a request to any other handler.    *)
(*   id       the task or reminder the response is about, None if none     *)
(*   http     status code of the HTTP response, 0 for a plain return value *)
(*   success  the "success" key, "absent" when the body has none           *)
(*   status   the "status" key of a job-callback response                  *)
(*   dapr_job_cancelled  the key of that name in a cancel response         *)
(*   bus      how the bus answered the handler's publish, "" if it made    *)
(*            none (not a key of the body; kept to tell the cases apart)   *)
(*   job_delete  the job id of the handler's DELETE call to the scheduler, *)
(*            NoJob if it made none (not a key of the body either)         *)
(*   detail   why a create-reminder request failed: the HTTPException's    *)
(*            detail, the MCP tool's error, or the exception that escaped  *)
(*   dapr_job_id  the job id a scheduling call returned, NoJob if none     *)
(*   args     the arguments of a call to one of the functions of utils/,   *)
(*            <<>> after a request                                         *)
(*   value    what that call returned, None after a request                *)
(***************************************************************************)
NoResp ==
    [op |-> "none", id |-> None, http |-> 0, success |-> "absent",
     status |-> "", is_recurring |-> FALSE, next_occurrence |-> None,
     event_published |-> FALSE, dapr_job_cancelled |-> FALSE, bus |-> "",
     job_delete |-> NoJob, detail |-> "", dapr_job_id |-> NoJob,
     args |-> <<>>, value |-> None]

Reply(op, id, http, success) ==
    [NoResp EXCEPT !.op = op, !.id = id, !.http = http, !.success = success]

(***************************************************************************)
(* Inputs                                                                  *)
(***************************************************************************)
\* The store during one request: it answers, or the commit of the request's
\* transaction raises (the reads before it succeed).
StoreFaults == {"ok", "commit"}

\* EventPublisher._publish: the POST answers 2xx, answers another status,
\* raises httpx.RequestError, or the publish helper raises before the POST.
PublishOutcomes == {"ok", "non2xx", "request_error", "exception"}

\* The values the `completed` key of a TaskUpdate body can carry
\* (exclude_unset drops an absent key, an explicit null is kept).
CompletedInputs == {"unset", "null", "true", "false"}
\* The values the `recurrence` key of a TaskUpdate body takes here: absent,
\* an explicit null, and one value of each kind of RecurrenceEnum.
RecurrenceInputs == {"unset", "null", "none", "daily"}
\* TaskUpdate bodies: one of the two keys at a time.
TaskUpdates ==
    {[completed |-> c, recurrence |-> "unset"] : c \in CompletedInputs}
    \cup {[completed |-> "unset", recurrence |-> r] : r \in RecurrenceInputs}

\* TaskUpdate bodies handed to the crud helper and the MCP tool: the
\* `completed` key alone.
CompletedUpdates ==
    {[completed |-> c, recurrence |-> "unset"] : c \in CompletedInputs}

\* publish_event with the bus's answer; the bus is not asked when the
\* caller passes publish_event=false.
PublishInputs ==
    {[publish_event |-> FALSE, outcome |-> "ok"]}
    \cup {[publish_event |-> TRUE, outcome |-> o] : o \in PublishOutcomes}

(***************************************************************************)
(* service.py: TaskService                                                 *)
(***************************************************************************)
\* TaskService.create_task, reached through POST /tasks.
create_task(recurrence, fault) ==
    /\ IF fault # "ok"
       THEN UNCHANGED <<tasks, next_task_id, audit>>
       ELSE /\ next_task_id <= MaxTasks
            /\ Len(audit) < MaxAudit
            /\ tasks' = tasks @@ (next_task_id :> Task(recurrence, None))
            /\ next_task_id' = next_task_id + 1
            /\ audit' = _create_audit_entry(audit, "task.created",
                                            next_task_id, NoData)
    /\ resp' = NoResp
    /\ UNCHANGED <<task_events, reminders, reminder_events, jobs, stats>>
    /\ UNCHANGED <<in_flight, workers>>

\* set_completed with the flag reaching status alone.
set_completed_status_only(row, completed, now) ==
    IF completed = "true"
    THEN [row EXCEPT !.status = COMPLETED, !.completed_at = now]
    ELSE IF completed = "false"
    THEN [row EXCEPT !.status = PENDING]
    ELSE row

\* The `completed` branch of TaskService.update_task (lines 318-322):
\* the flag drives status and completed_at together, in both directions.
\* An absent or null flag leaves both columns alone.
set_completed(row, completed, now) ==
    IF completed = "true"
    THEN [row EXCEPT !.status = COMPLETED, !.completed_at = now]
    ELSE IF completed = "false"
    THEN [row EXCEPT !.status = PENDING, !.completed_at = None]
    ELSE row

\* The `recurrence` branch of TaskService.update_task (lines 308-309, 324).
set_recurrence(row, recurrence) ==
    IF recurrence = "unset" THEN row
    ELSE IF recurrence = "null" THEN [row EXCEPT !.recurrence = "null"]
    ELSE [row EXCEPT !.recurrence = recurrence]

\* TaskService.update_task, reached through PATCH /tasks/{id}.  A null
\* recurrence reaches setattr and the commit refuses it (column NOT NULL).
update_task(task_id, completed, recurrence, fault, now) ==
    /\ IF task_id \notin DOMAIN tasks
       THEN UNCHANGED <<tasks, audit>>
       ELSE LET row == set_recurrence(
                           set_completed(tasks[task_id], completed, now),
                           recurrence)
            IN  IF fault # "ok" \/ row.recurrence = "null"
                THEN UNCHANGED <<tasks, audit>>
                ELSE /\ Len(audit) < MaxAudit
                     /\ tasks' = [tasks EXCEPT ![task_id] = row]
                     /\ audit' = _create_audit_entry(audit, "task.updated",
                                                     task_id, NoData)
    /\ resp' = NoResp
    /\ UNCHANGED <<next_task_id, task_events, reminders, reminder_events,
                   jobs, stats>>
    /\ UNCHANGED <<in_flight, workers>>

\* The part update_priority, add_tags and remove_tags share: each writes
\* its own column (none of the columns of the rows here), commits, and adds
\* a task.updated audit entry.
update_column(task_id) ==
    /\ IF task_id \notin DOMAIN tasks
       THEN UNCHANGED audit
       ELSE /\ Len(audit) < MaxAudit
            /\ audit' = _create_audit_entry(audit, "task.updated", task_id,
                                            NoData)
    /\ resp' = NoResp
    /\ UNCHANGED <<tasks, next_task_id, task_events, reminders,
                   reminder_events, jobs, stats>>
    /\ UNCHANGED <<in_flight, workers>>

\* TaskService.update_priority, PUT /tasks/{id}/priority.
update_priority(task_id) == update_column(task_id)
\* TaskService.add_tags, POST /tasks/{id}/tags.
add_tags(task_id) == update_column(task_id)
\* TaskService.remove_tags, DELETE /tasks/{id}/tags.
remove_tags(task_id) == update_column(task_id)

(***************************************************************************)
(* services/event_publisher.py                                             *)
(***************************************************************************)
\* event_publisher.TaskEvent as model_dump() lays it out: the task's own
\* fields sit under task_data, not at the top level of the envelope.
TaskEvent(event_type, task_id, task_data) ==
    [event_type |-> event_type, task_id |-> task_id,
     task_data |-> task_data, user_id |-> 1]

\* _publish reporting success whatever the bus answered.
_publish_true(outcome) == TRUE

\* EventPublisher._publish: the return value.
_publish(outcome) == outcome = "ok"

\* _publish_topic with the envelope counted as sent whatever the bus said.
_publish_topic_always(topic, data, outcome) == Append(topic, data)

\* EventPublisher._publish: the topic after the call.
_publish_topic(topic, data, outcome) ==
    IF outcome = "ok" THEN Append(topic, data) ELSE topic

\* EventPublisher.publish_task_completed: the envelope it builds.
publish_task_completed(task_id, task_data, is_recurring) ==
    TaskEvent("task.completed", task_id,
              [task_data EXCEPT !.is_recurring = is_recurring])

\* TaskService._publish_task_completed_event: the task_data it builds.
task_completed_data(task_id, row, is_recurring) ==
    [id |-> task_id, recurrence |-> row.recurrence,
     completed_at |-> row.completed_at, is_recurring |-> is_recurring]

(***************************************************************************)
(* service.py: the completion orchestrator                                 *)
(***************************************************************************)
\* complete_task line 596.
is_recurring(row) == row.recurrence # "none"

\* already_completed without the early return.
already_completed_never(row) == FALSE

\* complete_task line 580: the early return for a task that is done.
already_completed(row) == row.status = COMPLETED

\* complete_task lines 598-600: the completed row.
mark_completed(row, now) ==
    [row EXCEPT !.status = COMPLETED, !.completed_at = now]

\* complete_rows without the next occurrence.
complete_rows_no_child(table, task_id, new_id, now) ==
    [table EXCEPT ![task_id] = mark_completed(table[task_id], now)]

\* complete_rows with a next occurrence that does not name its parent.
complete_rows_orphan(table, task_id, new_id, now) ==
    LET done == [table EXCEPT ![task_id] = mark_completed(table[task_id], now)]
    IN  IF is_recurring(table[task_id])
        THEN done @@ (new_id :> Task(table[task_id].recurrence, None))
        ELSE done

\* complete_task lines 606-609: the due date of the next occurrence.  The
\* calculator gets the row's due date, or the clock when the row has none,
\* and the row's recurrence; no day selector is passed.
next_due_date(row, now) ==
    calculate_next_due_date(
        IF row.due_date # None THEN row.due_date ELSE now,
        row.recurrence, NoDay, NoDay)

\* complete_rows with a next occurrence that is the parent of the task it
\* follows.
complete_rows_parent_of_parent(table, task_id, new_id, now) ==
    LET done == [table EXCEPT ![task_id] =
                     [mark_completed(table[task_id], now)
                         EXCEPT !.parent_task_id =
                             IF is_recurring(table[task_id]) THEN new_id
                                                             ELSE @]]
    IN  IF is_recurring(table[task_id])
        THEN done @@ (new_id :> Task(table[task_id].recurrence, task_id))
        ELSE done

\* complete_task lines 602-625, 639-640: the tasks table after the commit.
\* The status change and the new row go into the same commit.
complete_rows(table, task_id, new_id, now) ==
    LET done == [table EXCEPT ![task_id] = mark_completed(table[task_id], now)]
    IN  IF is_recurring(table[task_id])
        THEN done @@ (new_id :>
                 [Task(table[task_id].recurrence, task_id)
                    EXCEPT !.due_date = next_due_date(table[task_id], now)])
        ELSE done

\* TaskService.complete_task, reached through POST /tasks/{id}/complete.
\* Any exception leaves through the handler at lines 677-680: rollback of
\* the open transaction and HTTP 500.
complete_task(task_id, publish_event, fault, outcome, now) ==
    /\ IF task_id \notin DOMAIN tasks
       THEN /\ resp' = Reply("complete_task", None, 404, "absent")
            /\ UNCHANGED <<tasks, next_task_id, audit, task_events>>
       ELSE IF already_completed(tasks[task_id])
       THEN /\ resp' = Reply("complete_task", task_id, 200, "false")
            /\ UNCHANGED <<tasks, next_task_id, audit, task_events>>
       ELSE LET row == tasks[task_id]
                recurring == is_recurring(row)
                rows == complete_rows(tasks, task_id, next_task_id, now)
                published == publish_event /\ _publish(outcome)
            IN  IF fault # "ok"
                THEN /\ resp' = [Reply("complete_task", task_id, 500, "absent")
                                   EXCEPT !.is_recurring = recurring]
                     /\ UNCHANGED <<tasks, next_task_id, audit, task_events>>
                ELSE /\ recurring => next_task_id <= MaxTasks
                     /\ Len(audit) < MaxAudit
                     /\ tasks' = rows
                     /\ next_task_id' = IF recurring THEN next_task_id + 1
                                                     ELSE next_task_id
                     /\ audit' = _create_audit_entry(audit, "task.completed",
                            task_id,
                            [NoData EXCEPT
                                !.old_status = row.status,
                                !.new_status = "completed",
                                !.is_recurring = recurring,
                                !.recurrence = row.recurrence])
                     /\ task_events' =
                            IF publish_event
                            THEN _publish_topic(task_events,
                                     publish_task_completed(task_id,
                                         task_completed_data(task_id,
                                             rows[task_id], recurring),
                                         recurring),
                                     outcome)
                            ELSE task_events
                     /\ resp' = [Reply("complete_task", task_id, 200, "true")
                                   EXCEPT !.is_recurring = recurring,
                                          !.next_occurrence =
                                              IF recurring THEN next_task_id
                                                           ELSE None,
                                          !.event_published = published,
                                          !.bus = IF publish_event
                                                  THEN outcome ELSE ""]
    /\ UNCHANGED <<reminders, reminder_events, jobs, stats>>
    /\ UNCHANGED <<in_flight, workers>>

(***************************************************************************)
(* crud.py                                                                 *)
(***************************************************************************)
\* crud.create_task: Task(**task.dict()), no audit entry.  The body leaves
\* recurrence at the TaskBase default.
crud_create_task ==
    /\ next_task_id <= MaxTasks
    /\ tasks' = tasks @@ (next_task_id :> Task("none", None))
    /\ next_task_id' = next_task_id + 1
    /\ resp' = NoResp
    /\ UNCHANGED <<audit, task_events, reminders, reminder_events, jobs, stats>>
    /\ UNCHANGED <<in_flight, workers>>

\* crud.update_task with the `completed` key reaching the status column.
crud_update_task_sets_status(task_id, completed, recurrence) ==
    /\ IF task_id \notin DOMAIN tasks
       THEN UNCHANGED tasks
       ELSE tasks' = [tasks EXCEPT ![task_id] = set_completed(@, completed, 1)]
    /\ resp' = NoResp
    /\ UNCHANGED <<next_task_id, audit, task_events, reminders,
                   reminder_events, jobs, stats>>
    /\ UNCHANGED <<in_flight, workers>>

\* crud.update_task: setattr of every key of the body.  models.Task has no
\* `completed` column, so that key only sets a Python attribute on the
\* loaded object and reaches no column.
crud_update_task(task_id, completed, recurrence) ==
    /\ IF task_id \notin DOMAIN tasks
       THEN UNCHANGED tasks
       ELSE LET row == set_recurrence(tasks[task_id], recurrence)
            IN  IF row.recurrence = "null"
                THEN UNCHANGED tasks
                ELSE tasks' = [tasks EXCEPT ![task_id] = row]
    /\ resp' = NoResp
    /\ UNCHANGED <<next_task_id, audit, task_events, reminders,
                   reminder_events, jobs, stats>>
    /\ UNCHANGED <<in_flight, workers>>

(***************************************************************************)
(* mcp_tools: the task tools.  They are written against a Task with a      *)
(* `completed` column, which models.Task does not declare: reading         *)
(* task.completed raises AttributeError and Task(completed=...) raises     *)
(* TypeError; each tool catches it, rolls back and returns success=False.  *)
(***************************************************************************)
\* mcp_tools/complete_task.execute: a missing task returns success=False at
\* line 60, an existing one at line 69, where task.completed is read.
mcp_complete_task(task_id) ==
    /\ resp' = Reply("mcp.complete_task", None, 0, "false")
    /\ UNCHANGED <<tasks, next_task_id, audit, task_events, reminders,
                   reminder_events, jobs, stats>>
    /\ UNCHANGED <<in_flight, workers>>

\* mcp_tools/update_task.execute: `task.completed = completed` sets a plain
\* attribute; the commit writes the other columns; the result then reads
\* task.completed, which exists only if the call set it.
mcp_update_task(task_id, completed) ==
    /\ resp' = NoResp
    /\ UNCHANGED <<tasks, next_task_id, audit, task_events, reminders,
                   reminder_events, jobs, stats>>
    /\ UNCHANGED <<in_flight, workers>>

\* mcp_tools/add_task.execute: Task(..., completed=False) raises TypeError
\* before anything is added to the session.
mcp_add_task ==
    /\ resp' = NoResp
    /\ UNCHANGED <<tasks, next_task_id, audit, task_events, reminders,
                   reminder_events, jobs, stats>>
    /\ UNCHANGED <<in_flight, workers>>

(***************************************************************************)
(* services/recurring_task: the worker on topic task-events                *)
(***************************************************************************)
\* dict.get on a decoded envelope.
Get(data, key, default) == IF key \in DOMAIN data THEN data[key] ELSE default

\* The task paths the backend routes (main.py mounts service.router under
\* /api).
BackendRoutes == {"api/tasks", "api/tasks/{task_id}",
                  "api/tasks/{task_id}/priority", "api/tasks/{task_id}/tags",
                  "api/tasks/{task_id}/complete", "api/tasks/{task_id}/chain",
                  "api/tasks/search", "api/tasks/{task_id}/subtasks"}

\* BackendAPIClient.create_next_occurrence: invoke_method of METHOD_CREATE_TASK
\* on the backend; the call succeeds only if the backend routes that method.
METHOD_CREATE_TASK == "create_task"
create_next_occurrence(method) == method \in BackendRoutes

\* NextOccurrenceScheduler.calculate_next_occurrence: whether it returns a
\* date for the pattern (None for a pattern it does not know).
calculate_next_occurrence(recurrence) ==
    \/ recurrence \in {"daily", "weekdays", "weekly", "biweekly", "monthly",
                       "quarterly", "yearly"}

\* TaskEventConsumer.process_event lines 67-80: whether the event gets as
\* far as the task-creation call.  The recurrence is read from the top
\* level of the envelope.
wants_next_occurrence(data) ==
    /\ Get(data, "event_type", "") = "task.completed"
    /\ Get(data, "recurrence", "") # ""
    /\ calculate_next_occurrence(Get(data, "recurrence", ""))

\* TaskEventConsumer._handle_event with process_event, for one delivery of
\* the i-th envelope of the topic; the bus may deliver an envelope again.
\* _handle_event acknowledges the delivery with (True, "OK").  A
\* task-creation call that succeeds inserts the row through the backend's
\* create_task, which takes no parent_task_id from the body.
process_event(i) ==
    /\ i \in 1..Len(task_events)
    /\ LET data == task_events[i]
           task_id == Get(data, "task_id", 0)
       IN  /\ resp' = Reply("process_event", task_id, 0, "true")
           /\ IF ~wants_next_occurrence(data)
              THEN UNCHANGED <<tasks, next_task_id, audit, stats>>
              ELSE /\ stats.events_processed < MaxStats
                   /\ IF create_next_occurrence(METHOD_CREATE_TASK)
                      THEN /\ next_task_id <= MaxTasks
                           /\ Len(audit) < MaxAudit
                           /\ tasks' = tasks @@ (next_task_id :>
                                  Task(Get(data, "recurrence", ""), None))
                           /\ next_task_id' = next_task_id + 1
                           /\ audit' = _create_audit_entry(audit,
                                  "task.created", next_task_id, NoData)
                           /\ stats' = [stats EXCEPT
                                  !.tasks_created = @ + 1,
                                  !.events_processed = @ + 1]
                      ELSE /\ stats' = [stats EXCEPT
                                  !.errors_count = @ + 1,
                                  !.events_processed = @ + 1]
                           /\ UNCHANGED <<tasks, next_task_id, audit>>
    /\ UNCHANGED <<task_events, reminders, reminder_events, jobs>>
    /\ UNCHANGED <<in_flight, workers>>

(***************************************************************************)
(* Reminders: rows, the job scheduler and the bus topic                    *)
(***************************************************************************)
\* models.Reminder, the columns the handlers below read or write.
Reminder(task_id, scheduled_at, status, dapr_job_id) ==
    [task_id |-> task_id, scheduled_at |-> scheduled_at, status |-> status,
     dapr_job_id |-> dapr_job_id]

\* DaprJobsClient._generate_job_id: "reminder-{task_id}-{reminder_id}-{hash}",
\* the hash taken over both ids and the time of the call.
_generate_job_id(task_id, reminder_id, now) ==
    <<"reminder", task_id, reminder_id, <<task_id, reminder_id, now>> >>

\* The job scheduler during one request: it answers, answers with an error
\* status, or cannot be reached.
SchedulerStates == {"up", "error", "unreachable"}

\* The status code of DELETE /jobs/{job_id}; 0 stands for httpx raising.
delete_status(registered, job_id, scheduler) ==
    IF scheduler = "unreachable" THEN 0
    ELSE IF scheduler = "error" THEN 500
    ELSE IF job_id \in registered THEN 204 ELSE 404

\* DaprJobsClient.delete_job: the return value.
delete_job(registered, job_id, scheduler) ==
    delete_status(registered, job_id, scheduler) \in {200, 204, 404}

\* The scheduler's jobs after DELETE /jobs/{job_id}.
delete_job_jobs(registered, job_id, scheduler) ==
    IF delete_status(registered, job_id, scheduler) = 204
    THEN registered \ {job_id} ELSE registered

\* event_publisher.ReminderEvent as publish_reminder_triggered fills it.
publish_reminder_triggered(reminder_id, task_id) ==
    [event_type |-> "reminder.triggered", reminder_id |-> reminder_id,
     task_id |-> task_id, status |-> "triggered", user_id |-> 1]

(***************************************************************************)
(* routes/reminders.py and mcp_tools/cancel_reminder.py                    *)
(***************************************************************************)
\* The statuses in which the HTTP route answers without cancelling.
cancel_reminder_refuses == {CANCELLED}

\* cancel_rows that leaves the status as it was.
cancel_rows_keeps_status(reminder_id) == reminders

\* The part both cancel handlers share: delete the job if the row names
\* one (a failure is only logged), set status CANCELLED, commit.
cancel_rows(reminder_id) ==
    [reminders EXCEPT ![reminder_id].status = CANCELLED]

\* routes/reminders.cancel_reminder, DELETE /reminders/{reminder_id}.
cancel_reminder(reminder_id, scheduler) ==
    /\ IF reminder_id \notin DOMAIN reminders
       THEN /\ resp' = Reply("cancel_reminder", None, 404, "absent")
            /\ UNCHANGED <<reminders, jobs>>
       ELSE IF reminders[reminder_id].status \in cancel_reminder_refuses
       THEN /\ resp' = Reply("cancel_reminder", reminder_id, 200, "true")
            /\ UNCHANGED <<reminders, jobs>>
       ELSE LET job_id == reminders[reminder_id].dapr_job_id
                cancelled == /\ job_id # NoJob
                             /\ delete_job(jobs, job_id, scheduler)
            IN  /\ jobs' = IF job_id # NoJob
                           THEN delete_job_jobs(jobs, job_id, scheduler)
                           ELSE jobs
                /\ reminders' = cancel_rows(reminder_id)
                /\ resp' = [Reply("cancel_reminder", reminder_id, 200, "true")
                              EXCEPT !.status = CANCELLED,
                                     !.dapr_job_cancelled = cancelled,
                                     !.job_delete = job_id]
    /\ UNCHANGED <<tasks, next_task_id, audit, task_events, reminder_events,
                   stats>>
    /\ UNCHANGED <<in_flight, workers>>

\* The statuses in which the MCP tool answers success=False.
mcp_cancel_reminder_refuses == {CANCELLED, SENT}

\* mcp_tools/cancel_reminder.execute.
mcp_cancel_reminder(reminder_id, scheduler) ==
    /\ IF reminder_id \notin DOMAIN reminders
       THEN /\ resp' = Reply("mcp.cancel_reminder", None, 0, "false")
            /\ UNCHANGED <<reminders, jobs>>
       ELSE IF reminders[reminder_id].status \in mcp_cancel_reminder_refuses
       THEN /\ resp' = Reply("mcp.cancel_reminder", reminder_id, 0, "false")
            /\ UNCHANGED <<reminders, jobs>>
       ELSE LET job_id == reminders[reminder_id].dapr_job_id
                cancelled == /\ job_id # NoJob
                             /\ delete_job(jobs, job_id, scheduler)
            IN  /\ jobs' = IF job_id # NoJob
                           THEN delete_job_jobs(jobs, job_id, scheduler)
                           ELSE jobs
                /\ reminders' = cancel_rows(reminder_id)
                /\ resp' = [Reply("mcp.cancel_reminder", reminder_id, 0, "true")
                              EXCEPT !.status = CANCELLED,
                                     !.dapr_job_cancelled = cancelled,
                                     !.job_delete = job_id]
    /\ UNCHANGED <<tasks, next_task_id, audit, task_events, reminder_events,
                   stats>>
    /\ UNCHANGED <<in_flight, workers>>

(***************************************************************************)
(* routes/jobs.py and services/dapr_jobs_client.py: the job callback       *)
(***************************************************************************)
\* The callback bodies: a type, and the two ids present or missing
\* (dict.get gives None for a missing key).  Reminder ids run one past the
\* table so that a body can name a reminder that does not exist; the task
\* is the one that owns the reminders.
JobTypes == {"reminder", "cleanup"}
JobPayloads ==
    [type : JobTypes, reminder_id : {None} \cup 1..(MaxReminders + 1),
     task_id : {None, 1}]

\* already_processed without the failed status.
already_processed_not_failed(status) == status \in {SENT, CANCELLED}

\* trigger_job line 96: the statuses of a reminder that is done with.
already_processed(status) == status \in {SENT, CANCELLED, FAILED}

\* routes/jobs.trigger_job, POST /api/jobs/trigger.  The pending branch
\* assigns status PENDING and commits; publish_reminder_triggered is a
\* coroutine function called without await, so the call builds a coroutine
\* object (truthy) that never runs: nothing reaches the bus and the handler
\* takes the `if event_success` branch.
trigger_job(job_data) ==
    /\ IF job_data.type # "reminder"
       THEN /\ resp' = [Reply("trigger_job", None, 200, "absent")
                          EXCEPT !.status = "ignored"]
            /\ UNCHANGED reminders
       ELSE IF job_data.reminder_id = None \/ job_data.task_id = None
       THEN /\ resp' = [Reply("trigger_job", None, 200, "absent")
                          EXCEPT !.status = "error"]
            /\ UNCHANGED reminders
       ELSE IF job_data.reminder_id \notin DOMAIN reminders
       THEN /\ resp' = [Reply("trigger_job", job_data.reminder_id, 200, "absent")
                          EXCEPT !.status = "ignored"]
            /\ UNCHANGED reminders
       ELSE IF already_processed(reminders[job_data.reminder_id].status)
       THEN /\ resp' = [Reply("trigger_job", job_data.reminder_id, 200, "absent")
                          EXCEPT !.status = "ignored"]
            /\ UNCHANGED reminders
       ELSE /\ reminders' = [reminders EXCEPT
                                ![job_data.reminder_id].status = PENDING]
            /\ resp' = [Reply("trigger_job", job_data.reminder_id, 200, "absent")
                          EXCEPT !.status = "processed",
                                 !.event_published = TRUE]
    /\ UNCHANGED <<tasks, next_task_id, audit, task_events, reminder_events,
                   jobs, stats>>
    /\ UNCHANGED <<in_flight, workers>>

\* JobTriggerHandler.handle_trigger: no lookup of the reminder; the publish
\* is awaited.  ReminderEvent declares reminder_id and task_id as int, so a
\* body without one of them makes the constructor raise.
handle_trigger(job_data, outcome) ==
    /\ IF job_data.type # "reminder"
       THEN /\ resp' = [Reply("handle_trigger", None, 0, "absent")
                          EXCEPT !.status = "ignored"]
            /\ UNCHANGED reminder_events
       ELSE IF job_data.reminder_id = None \/ job_data.task_id = None
       THEN /\ resp' = [Reply("handle_trigger", None, 0, "absent")
                          EXCEPT !.status = "raised"]
            /\ UNCHANGED reminder_events
       ELSE /\ _publish(outcome) => Len(reminder_events) < MaxPublished
            /\ reminder_events' =
                   _publish_topic(reminder_events,
                       publish_reminder_triggered(job_data.reminder_id,
                                                  job_data.task_id),
                       outcome)
            /\ resp' = [Reply("handle_trigger", job_data.reminder_id, 0, "absent")
                          EXCEPT !.status = IF _publish(outcome)
                                            THEN "processed" ELSE "error",
                                 !.event_published = _publish(outcome),
                                 !.bus = outcome]
    /\ UNCHANGED <<tasks, next_task_id, audit, task_events, reminders,
                   jobs, stats>>
    /\ UNCHANGED <<in_flight, workers>>

(***************************************************************************)
(* utils/reminder_parser.py.  An offset text is a number and a unit word,  *)
(* as in "30 minutes before", "1 day", "PT30M" or "1w":                    *)
(*   prefix  what precedes the number ("PT" and "P" of the ISO durations)  *)
(*   value   the number                                                    *)
(*   sep     what stands between the number and the unit, "" or " "        *)
(*   unit    the word after the number                                     *)
(*   suffix  what follows the unit                                         *)
(* The empty text is NoText.                                               *)
(***************************************************************************)
OffsetText(prefix, value, sep, unit, suffix) ==
    [prefix |-> prefix, value |-> value, sep |-> sep, unit |-> unit,
     suffix |-> suffix]
NoText == OffsetText("", None, "", "", "")

MIN_OFFSET_MINUTES == 5
MAX_OFFSET_MINUTES == 10080

\* str.lower on the words of a text.
lower(word) ==
    CASE word = "PT" -> "pt"
      [] word = "P" -> "p"
      [] word = "M" -> "m"
      [] word = "H" -> "h"
      [] word = "D" -> "d"
      [] word = "Day" -> "day"
      [] word = "Daily" -> "daily"
      [] word = "Monday" -> "monday"
      [] OTHER -> word

\* ReminderParseResult; offset_type is "before_due" or "after_created".
ReminderParseResult(offset_minutes, valid, offset_type) ==
    [offset_minutes |-> offset_minutes, valid |-> valid,
     offset_type |-> offset_type]

\* The unit alternatives of BEFORE_PATTERNS and AFTER_PATTERNS with the
\* factor _convert_to_minutes gives each pattern.  A pattern asks for the
\* unit word exactly, directly followed by the suffix word, so a plural
\* ("minutes", "days") matches none of them.
_convert_to_minutes(value, unit) ==
    IF unit \in {"minute", "min", "m"} THEN value
    ELSE IF unit \in {"hour", "hr", "h"} THEN value * 60
    ELSE IF unit \in {"day", "d"} THEN value * 1440
    ELSE None

BeforeWords == {"before", "prior", "earlier", "from now"}
AfterWords == {"after", "later"}

\* ISO_DURATION_PATTERNS "PT(\d+)M", "PT(\d+)H", "P(\d+)D" matched with
\* re.match, which is case-sensitive, against the normalized text.
_parse_iso_duration(text) ==
    IF text.prefix = "PT" /\ text.unit = "M" THEN text.value
    ELSE IF text.prefix = "PT" /\ text.unit = "H" THEN text.value * 60
    ELSE IF text.prefix = "P" /\ text.unit = "D" THEN text.value * 1440
    ELSE None

\* _try_shorthand: the whole normalized text is a key of shorthand_map.
shorthand_map ==
    [m |-> {5, 10, 15, 30, 45}, h |-> {1, 2, 3, 6, 12}, d |-> {1, 2, 3},
     w |-> {1}]
_try_shorthand(text) ==
    IF /\ text.prefix = "" /\ text.sep = "" /\ text.suffix = ""
       /\ text.unit \in DOMAIN shorthand_map
       /\ text.value \in shorthand_map[text.unit]
    THEN CASE text.unit = "m" -> text.value
           [] text.unit = "h" -> text.value * 60
           [] text.unit = "d" -> text.value * 1440
           [] text.unit = "w" -> text.value * 10080
    ELSE None

\* parse_reminder_offset.  Only the "before" forms are checked against the
\* range; the "after" forms and the shorthands are returned as parsed.
parse_reminder_offset(input_text) ==
    IF input_text = NoText
    THEN ReminderParseResult(None, FALSE, "before_due")
    ELSE LET normalized == [input_text EXCEPT !.prefix = lower(@),
                                              !.unit = lower(@)]
             minutes == _convert_to_minutes(normalized.value, normalized.unit)
         IN  IF minutes # None /\ normalized.suffix \in BeforeWords
             THEN IF \/ minutes < MIN_OFFSET_MINUTES
                     \/ minutes > MAX_OFFSET_MINUTES
                  THEN ReminderParseResult(None, FALSE, "before_due")
                  ELSE ReminderParseResult(minutes, TRUE, "before_due")
             ELSE IF minutes # None /\ normalized.suffix \in AfterWords
             THEN ReminderParseResult(minutes, TRUE, "after_created")
             ELSE IF _parse_iso_duration(normalized) # None
             THEN ReminderParseResult(_parse_iso_duration(normalized), TRUE,
                                      "before_due")
             ELSE IF _try_shorthand(normalized) # None
             THEN ReminderParseResult(_try_shorthand(normalized), TRUE,
                                      "before_due")
             ELSE ReminderParseResult(None, FALSE, "before_due")

(***************************************************************************)
(* Creating a reminder: routes/reminders.create_reminder,                  *)
(* mcp_tools/create_reminder.execute and routes/jobs.schedule_test_job.    *)
(* Times are minutes on one time line.                                     *)
(***************************************************************************)
\* The instant of the call, and the due dates of the task: none, one ten
\* minutes after the call, one two days after it.
CallTimes == {20160}
DueDates == {None, 20170, 23040}

\* ReminderCreateRequest, and the arguments of the MCP tool; None and NoText
\* for what the caller leaves out.
ReminderCreateRequest(task_id, offset_minutes, offset_string, scheduled_at) ==
    [task_id |-> task_id, offset_minutes |-> offset_minutes,
     offset_string |-> offset_string, scheduled_at |-> scheduled_at]

OffsetInputs == {None, 3, 30, 1440, 20000}
OffsetTexts ==
    {NoText,
     OffsetText("", 1, " ", "day", ""),
     OffsetText("", 1, " ", "day", "before"),
     OffsetText("", 30, " ", "minutes", "before"),
     OffsetText("", 3, " ", "min", "before"),
     OffsetText("", 3, " ", "min", "after"),
     OffsetText("PT", 30, "", "M", ""),
     OffsetText("", 1, "", "w", "")}
ScheduledInputs(now) == {None, now - 1, now, now + 60}

\* The requests: for each task id, every body that gives at most one of
\* the three scheduling inputs, and the bodies that give a scheduled_at in
\* the future together with an offset.
ReminderCreateRequests(now) ==
    {ReminderCreateRequest(t, m, NoText, None) :
        t \in TaskIds, m \in OffsetInputs}
    \cup {ReminderCreateRequest(t, None, text, None) :
              t \in TaskIds, text \in OffsetTexts}
    \cup {ReminderCreateRequest(t, None, NoText, at) :
              t \in TaskIds, at \in ScheduledInputs(now)}
    \cup {ReminderCreateRequest(t, None, OffsetText("", 1, "", "w", ""),
                                now + 60) : t \in TaskIds}
    \cup {ReminderCreateRequest(t, 30, NoText, now + 60) : t \in TaskIds}

\* Field(None, ge=5, le=10080) of ReminderCreateRequest.offset_minutes.
offset_minutes_field(offset_minutes) ==
    \/ offset_minutes = None
    \/ /\ offset_minutes >= MIN_OFFSET_MINUTES
       /\ offset_minutes <= MAX_OFFSET_MINUTES

\* The requests of each call time, as a table.
RequestsAt == [now \in CallTimes |-> ReminderCreateRequests(now)]

\* What a create request ends in: an HTTP error status with its detail,
\* or the MCP tool's success=False with its error.
Failure(http, detail) ==
    [http |-> http, success |-> "absent", detail |-> detail]
Refusal(detail) == [http |-> 0, success |-> "false", detail |-> detail]

\* create_reminder_reply that answers a scheduled_at in the past with 200.
create_reminder_reply_accepts_past(request, now) ==
    IF request.scheduled_at # None /\ request.scheduled_at <= now
    THEN [http |-> 200, success |-> "absent", detail |-> ""]
    ELSE Failure(500, "TypeError")

\* create_reminder_reply that answers an offset outside the range with 200.
create_reminder_reply_any_offset(request, now) ==
    IF ~offset_minutes_field(request.offset_minutes)
    THEN [http |-> 200, success |-> "absent", detail |-> ""]
    ELSE Failure(500, "TypeError")

\* routes/reminders.create_reminder up to the point where it raises.  The
\* offset branches test `isinstance(due_datetime, date)`, and the module
\* imports datetime, timezone and timedelta but not date: NameError.  The
\* scheduled_at branch reaches Reminder(..., offset_minutes=...,
\* offset_string=...), keywords models.Reminder does not declare:
\* TypeError, or NameError before it when offset_string is given without
\* offset_minutes (parse_result is unbound).  Neither is caught, so the
\* request ends in HTTP 500.
create_reminder_reply(request, now) ==
    IF ~offset_minutes_field(request.offset_minutes)
    THEN Failure(422, "validation")
    ELSE IF request.task_id \notin DOMAIN tasks
    THEN Failure(404, "Task not found")
    ELSE IF tasks[request.task_id].due_date = None
    THEN Failure(400, "Task must have a due date")
    ELSE IF request.scheduled_at # None
    THEN IF request.scheduled_at <= now
         THEN Failure(400, "must be in the future")
         ELSE IF /\ request.offset_string # NoText
                 /\ request.offset_minutes = None
         THEN Failure(500, "NameError")
         ELSE Failure(500, "TypeError")
    ELSE IF request.offset_minutes # None
    THEN Failure(500, "NameError")
    ELSE IF request.offset_string # NoText
    THEN IF ~parse_reminder_offset(request.offset_string).valid
         THEN Failure(400, "Invalid reminder offset")
         ELSE Failure(500, "NameError")
    ELSE Failure(400, "Must provide")

\* POST /reminders/.  No branch gets as far as db.add, so the request
\* changes nothing and never calls the scheduler, whose state during the
\* request is the input `scheduler`.
create_reminder(request, now, scheduler) ==
    /\ LET reply == create_reminder_reply(request, now)
       IN  resp' = [Reply("create_reminder", None, reply.http, reply.success)
                      EXCEPT !.detail = reply.detail]
    /\ UNCHANGED <<tasks, next_task_id, audit, task_events, reminders,
                   reminder_events, jobs, stats, in_flight, workers>>

\* mcp_create_reminder_reply that answers success=True to a request that
\* gives none of the three scheduling inputs.
mcp_create_reminder_reply_accepts_empty(request, now) ==
    IF /\ request.offset_minutes = None
       /\ request.offset_string = NoText
       /\ request.scheduled_at = None
    THEN [http |-> 0, success |-> "true", detail |-> ""]
    ELSE Refusal("TypeError")

\* mcp_create_reminder_reply that answers success=True whenever a
\* scheduled_at in the future is given.
mcp_create_reminder_reply_scheduled(request, now) ==
    IF request.scheduled_at # None /\ request.scheduled_at > now
    THEN [http |-> 0, success |-> "true", detail |-> ""]
    ELSE Refusal("Must provide")

\* mcp_tools/create_reminder.execute up to the point where it returns or
\* raises; every exception is caught and answered with success=False.  A
\* parsed offset_string replaces offset_minutes, which is not checked
\* against any range; the offset branch raises NameError (date is not
\* imported here either) and the scheduled_at branch raises TypeError in
\* the Reminder constructor.
mcp_create_reminder_reply(request, now) ==
    LET parsed == parse_reminder_offset(request.offset_string)
        offset_minutes == IF request.offset_string # NoText
                          THEN parsed.offset_minutes
                          ELSE request.offset_minutes
    IN  IF request.task_id \notin DOMAIN tasks
        THEN Refusal("Task not found")
        ELSE IF /\ tasks[request.task_id].due_date = None
                /\ request.scheduled_at = None
        THEN Refusal("Task must have a due date")
        ELSE IF request.offset_string # NoText /\ ~parsed.valid
        THEN Refusal("Invalid reminder offset")
        ELSE IF request.scheduled_at # None
        THEN IF request.scheduled_at <= now
             THEN Refusal("must be in the future")
             ELSE Refusal("TypeError")
        ELSE IF offset_minutes \notin {None, 0}
        THEN Refusal("NameError")
        ELSE Refusal("Must provide")

mcp_create_reminder(request, now) ==
    /\ LET reply == mcp_create_reminder_reply(request, now)
       IN  resp' = [Reply("mcp.create_reminder", None, reply.http,
                          reply.success)
                      EXCEPT !.detail = reply.detail]
    /\ UNCHANGED <<tasks, next_task_id, audit, task_events, reminders,
                   reminder_events, jobs, stats, in_flight, workers>>

\* routes/jobs.schedule_test_job, POST /api/jobs/schedule-test: the
\* Reminder constructor raises TypeError (offset_minutes=1), which the
\* handler turns into HTTP 500.
schedule_test_job(task_id) ==
    /\ resp' = [Reply("schedule_test_job", None, 500, "absent")
                  EXCEPT !.detail = "TypeError"]
    /\ UNCHANGED <<tasks, next_task_id, audit, task_events, reminders,
                   reminder_events, jobs, stats, in_flight, workers>>

(***************************************************************************)
(* services/dapr_jobs_client.py: DaprJobsClient                            *)
(***************************************************************************)
\* The status code of PUT /jobs/{job_id}; 0 stands for httpx raising.
schedule_status(scheduler) ==
    IF scheduler = "unreachable" THEN 0
    ELSE IF scheduler = "error" THEN 500 ELSE 200

\* DaprJobsClient.schedule_reminder: builds the job id from the two ids and
\* the time of the call, registers the job, returns (success, job_id).
schedule_reminder(task_id, reminder_id, now, scheduler) ==
    LET job_id == _generate_job_id(task_id, reminder_id, now)
        success == schedule_status(scheduler) \in {200, 201, 204}
    IN  /\ jobs' = IF success THEN jobs \cup {job_id} ELSE jobs
        /\ resp' = [Reply("schedule_reminder", reminder_id, 0,
                          IF success THEN "true" ELSE "false")
                      EXCEPT !.dapr_job_id =
                                 IF success THEN job_id ELSE NoJob]
        /\ UNCHANGED <<tasks, next_task_id, audit, task_events, reminders,
                       reminder_events, stats, in_flight, workers>>

\* DaprJobsClient.cancel_reminder(task_id, reminder_id): builds a job id
\* again, at the time of this call, and deletes the job of that id.
client_cancel_reminder(task_id, reminder_id, now, scheduler) ==
    LET job_id == _generate_job_id(task_id, reminder_id, now)
    IN  /\ jobs' = delete_job_jobs(jobs, job_id, scheduler)
        /\ resp' = [Reply("DaprJobsClient.cancel_reminder", reminder_id, 0,
                          IF delete_job(jobs, job_id, scheduler)
                          THEN "true" ELSE "false")
                      EXCEPT !.job_delete = job_id,
                             !.dapr_job_cancelled =
                                 delete_job(jobs, job_id, scheduler)]
        /\ UNCHANGED <<tasks, next_task_id, audit, task_events, reminders,
                       reminder_events, stats, in_flight, workers>>

(***************************************************************************)
(* The cancel handlers and the job callback, step by step.  Both cancel    *)
(* handlers are suspended at `await client.delete_job(...)`, between the   *)
(* lookup of the row and the write of its status; trigger_job is split     *)
(* between its lookup and its commit, which lie in one event-loop turn but *)
(* interleave with requests served by another worker process.              *)
(***************************************************************************)
\* The two cancel handlers and the statuses each refuses.
CancelOps == {"cancel_reminder", "mcp.cancel_reminder"}
cancel_refuses(op) ==
    IF op = "cancel_reminder" THEN cancel_reminder_refuses
                              ELSE mcp_cancel_reminder_refuses

\* Either cancel handler from its lookup up to `await client.delete_job`:
\* it answers at once for a missing or refused row, runs to its end when
\* the row names no job, and is suspended otherwise.
cancel_reminder_await(op, reminder_id) ==
    /\ in_flight.cancel = NoCall
    /\ IF reminder_id \notin DOMAIN reminders
       THEN /\ resp' = Reply(op, None,
                             IF op = "cancel_reminder" THEN 404 ELSE 0,
                             IF op = "cancel_reminder" THEN "absent"
                                                       ELSE "false")
            /\ UNCHANGED <<reminders, in_flight>>
       ELSE IF reminders[reminder_id].status \in cancel_refuses(op)
       THEN /\ resp' = Reply(op, reminder_id,
                             IF op = "cancel_reminder" THEN 200 ELSE 0,
                             IF op = "cancel_reminder" THEN "true"
                                                       ELSE "false")
            /\ UNCHANGED <<reminders, in_flight>>
       ELSE IF reminders[reminder_id].dapr_job_id = NoJob
       THEN /\ reminders' = cancel_rows(reminder_id)
            /\ resp' = [Reply(op, reminder_id,
                              IF op = "cancel_reminder" THEN 200 ELSE 0,
                              "true")
                          EXCEPT !.status = CANCELLED]
            /\ UNCHANGED <<in_flight>>
       ELSE /\ in_flight' = [in_flight EXCEPT !.cancel =
                   Call(op, reminder_id, reminders[reminder_id].task_id,
                        reminders[reminder_id].dapr_job_id)]
            /\ resp' = NoResp
            /\ UNCHANGED reminders
    /\ UNCHANGED <<tasks, next_task_id, audit, task_events, reminder_events,
                   jobs, stats, workers>>

\* The suspended cancel handler from the answer of delete_job to its end.
cancel_reminder_resume(scheduler) ==
    /\ in_flight.cancel # NoCall
    /\ LET c == in_flight.cancel
       IN  /\ jobs' = delete_job_jobs(jobs, c.job_id, scheduler)
           /\ reminders' = cancel_rows(c.reminder_id)
           /\ resp' = [Reply(c.op, c.reminder_id,
                             IF c.op = "cancel_reminder" THEN 200 ELSE 0,
                             "true")
                         EXCEPT !.status = CANCELLED,
                                !.dapr_job_cancelled =
                                    delete_job(jobs, c.job_id, scheduler),
                                !.job_delete = c.job_id]
    /\ in_flight' = [in_flight EXCEPT !.cancel = NoCall]
    /\ UNCHANGED <<tasks, next_task_id, audit, task_events, reminder_events,
                   stats, workers>>

\* trigger_job up to and including the already-processed check.
trigger_job_lookup(job_data) ==
    /\ in_flight.trigger = NoCall
    /\ IF /\ job_data.type = "reminder"
          /\ job_data.reminder_id # None
          /\ job_data.task_id # None
          /\ job_data.reminder_id \in DOMAIN reminders
          /\ ~already_processed(reminders[job_data.reminder_id].status)
       THEN /\ in_flight' = [in_flight EXCEPT !.trigger =
                   Call("trigger_job", job_data.reminder_id,
                        job_data.task_id, NoJob)]
            /\ resp' = NoResp
            /\ UNCHANGED <<tasks, next_task_id, audit, task_events,
                           reminders, reminder_events, jobs, stats,
                           workers>>
       ELSE trigger_job(job_data)

\* trigger_job from `reminder.status = PENDING` to its end.  The row was
\* loaded as pending, so the assignment changes no attribute and the
\* commit writes nothing, whatever the stored row has become meanwhile;
\* the publish is not awaited (see trigger_job).
trigger_job_commit ==
    /\ in_flight.trigger # NoCall
    /\ resp' = [Reply("trigger_job", in_flight.trigger.reminder_id, 200,
                      "absent")
                  EXCEPT !.status = "processed", !.event_published = TRUE]
    /\ in_flight' = [in_flight EXCEPT !.trigger = NoCall]
    /\ UNCHANGED <<tasks, next_task_id, audit, task_events, reminders,
                   reminder_events, jobs, stats, workers>>

(***************************************************************************)
(* utils/recurrence_parser.py.  A recurrence text is the sequence of its   *)
(* blank-separated tokens; a token is a run of digits followed by a run of *)
(* letters, either of which may be empty ("monday", "15", "15th").  The    *)
(* empty text is <<>>.                                                     *)
(***************************************************************************)
\* A token without digits.
Word(letters) == [digits |-> -1, letters |-> letters]
\* A token that starts with the decimal numeral of `digits`.
Numeral(digits, letters) == [digits |-> digits, letters |-> letters]

\* WEEKDAY_MAP: the names and abbreviations, Monday 0 to Sunday 6.
WEEKDAY_MAP ==
    [name \in {"monday", "tuesday", "wednesday", "thursday", "friday",
               "saturday", "sunday", "mon", "tue", "wed", "thu", "fri",
               "sat", "sun"} |->
        CASE name \in {"monday", "mon"} -> 0
          [] name \in {"tuesday", "tue"} -> 1
          [] name \in {"wednesday", "wed"} -> 2
          [] name \in {"thursday", "thu"} -> 3
          [] name \in {"friday", "fri"} -> 4
          [] name \in {"saturday", "sat"} -> 5
          [] OTHER -> 6]

\* RecurrenceParseResult: what a call returns.  error_message is "" for
\* None; day_of_week and day_of_month are NoDay for None.  A call that
\* raises returns nothing: `raises` names the exception that leaves the
\* function, "" when it returns.
RecurrenceParseResult(frequency, valid, error_message, day_of_week, day_of_month) ==
    [frequency |-> frequency, valid |-> valid,
     error_message |-> error_message, day_of_week |-> day_of_week,
     day_of_month |-> day_of_month, raises |-> ""]

\* A pattern string: `frequency`, and after a colon either a day name or a
\* decimal numeral ("weekly:monday", "monthly:15"); name "" and number
\* NoDay for a string without a colon.
PatternString(frequency, name, number) ==
    [frequency |-> frequency, name |-> name, number |-> number]

\* RecurrenceParseResult.to_pattern_string.  The weekday is tested against
\* None (line 120), the day of month for truth (line 125): day 0 is written
\* as no day.
to_pattern_string(result) ==
    IF result.frequency = "daily" THEN PatternString("daily", "", NoDay)
    ELSE IF result.frequency = "weekly"
    THEN IF result.day_of_week # NoDay
         THEN PatternString("weekly",
                  <<"monday", "tuesday", "wednesday", "thursday", "friday",
                    "saturday", "sunday">>[result.day_of_week + 1], NoDay)
         ELSE PatternString("weekly", "", NoDay)
    ELSE IF result.frequency = "monthly"
    THEN IF result.day_of_month \notin {NoDay, 0}
         THEN PatternString("monthly", "", result.day_of_month)
         ELSE PatternString("monthly", "", NoDay)
    ELSE PatternString("none", "", NoDay)

\* RecurrenceParseResult.from_pattern_string.  There is a branch for each
\* of "none", "daily", "weekly", for "weekly:<name>" and for
\* "monthly:<int>"; a bare "monthly" reaches the last return.
from_pattern_string(pattern) ==
    LET bare == pattern.name = "" /\ pattern.number = NoDay
    IN  IF bare /\ pattern.frequency \in {"none", "daily", "weekly"}
        THEN RecurrenceParseResult(pattern.frequency, TRUE, "", NoDay, NoDay)
        ELSE IF /\ pattern.frequency = "weekly"
                /\ pattern.name \in DOMAIN WEEKDAY_MAP
        THEN RecurrenceParseResult("weekly", TRUE, "",
                                   WEEKDAY_MAP[pattern.name], NoDay)
        ELSE IF pattern.frequency = "monthly" /\ pattern.number # NoDay
        THEN RecurrenceParseResult("monthly", TRUE, "", NoDay,
                                   pattern.number)
        ELSE RecurrenceParseResult("none", FALSE, "Unknown pattern", NoDay,
                                   NoDay)

\* parse_recurrence_pattern.  The text is lower-cased and tried against
\* DAILY_PATTERNS, WEEKLY_PATTERNS and MONTHLY_PATTERNS in that order.
\*   - A weekly pattern without a group ("weekly", "every week", "each
\*     week") skips the block at lines 199-206 and reads `captured` at line
\*     209 before any pattern has bound it: UnboundLocalError.
\*   - A weekly pattern with a group binds `captured` to the last token.
\*   - A monthly pattern without a group ("monthly", "every month", "each
\*     month", "last day", "end of month") skips the block at lines 217-236
\*     and calls match.group(1) at line 239: IndexError.
\*   - A monthly pattern with a group captures one or two digits; a day
\*     outside 1..31 falls through to the last return.
parse_recurrence_pattern(input_text) ==
    LET normalized == [i \in DOMAIN input_text |->
                          [input_text[i] EXCEPT !.letters = lower(@)]]
        words == [i \in DOMAIN normalized |->
                     IF normalized[i].digits = -1 THEN normalized[i].letters
                                                  ELSE "0"]
        last == normalized[Len(normalized)]
        captured == words[Len(words)]
        result(frequency, day_of_week, day_of_month) ==
            RecurrenceParseResult(frequency, TRUE, "", day_of_week,
                                  day_of_month)
        raise(exception) ==
            [RecurrenceParseResult("none", FALSE, "", NoDay, NoDay)
                EXCEPT !.raises = exception]
    IN  IF input_text = <<>>
        THEN RecurrenceParseResult("none", FALSE, "Empty recurrence pattern",
                                   NoDay, NoDay)
        ELSE IF words \in {<<"daily">>, <<"every", "day">>, <<"each", "day">>,
                           <<"everyday">>}
        THEN result("daily", NoDay, NoDay)
        ELSE IF words \in {<<"weekly">>, <<"every", "week">>,
                           <<"each", "week">>}
        THEN raise("UnboundLocalError")
        ELSE IF /\ \/ Len(words) = 1
                   \/ Len(words) = 2 /\ words[1] \in {"every", "on"}
                /\ captured \in DOMAIN WEEKDAY_MAP
        THEN result("weekly", WEEKDAY_MAP[captured], NoDay)
        ELSE IF /\ \/ Len(words) = 1
                   \/ Len(words) = 2 /\ words[1] \in {"every", "on"}
                /\ captured \in {"weekly", "week"}
        THEN result("weekly", NoDay, NoDay)
        ELSE IF words \in {<<"monthly">>, <<"every", "month">>,
                           <<"each", "month">>, <<"last", "day">>,
                           <<"lastday">>, <<"end", "of", "month">>}
        THEN raise("IndexError")
        ELSE IF /\ \/ /\ Len(words) = 1
                      /\ last.letters \in {"", "st", "nd", "rd", "th"}
                   \/ /\ Len(words) = 2
                      /\ words[1] = "day"
                      /\ last.letters = ""
                /\ last.digits \in 1..31
        THEN result("monthly", NoDay, last.digits)
        ELSE RecurrenceParseResult("none", FALSE,
                 "Could not parse recurrence pattern", NoDay, NoDay)

\* The texts the recurrence parser is called with.
RecurrenceTexts ==
    LET names == DOMAIN WEEKDAY_MAP
        singles == names \cup {"daily", "everyday", "Daily", "weekly", "week",
                               "monthly", "month", "Monday", "last",
                               "lastday", "banana", "yearly"}
        seconds == {"day", "week", "month", "monday", "sun", "banana"}
    IN  {<<>>, <<Word("end"), Word("of"), Word("month")>>,
         <<Word("last"), Word("day")>>}
        \cup {<<Word(w)>> : w \in singles}
        \cup {<<Word(f), Word(s)>> : f \in {"every", "each", "on"},
                                     s \in seconds}
        \cup {<<Numeral(n, "")>> : n \in 0..32 \cup {100}}
        \cup {<<Numeral(n, "th")>> : n \in {0, 15, 32}}
        \cup {<<Numeral(1, "st")>>, <<Numeral(15, "x")>>}
        \cup {<<Word("day"), Numeral(n, l)>> : n \in {0, 15, 32},
                                              l \in {"", "th"}}

\* from_pattern_string(to_pattern_string(parse_recurrence_pattern(text))):
\* an exception of the parser leaves the whole expression.
round_trip(input_text) ==
    LET parsed == parse_recurrence_pattern(input_text)
    IN  IF parsed.raises # "" THEN parsed
        ELSE from_pattern_string(to_pattern_string(parsed))

(***************************************************************************)
(* Calls to the functions of utils/ and to the publisher.  A call changes   *)
(* no table of the store; resp holds the call: its arguments, and its      *)
(* value once it returned.                                                 *)
(***************************************************************************)
\* The dates the calculator is called with: every day of a leap year and of
\* the year after it, at midnight and at 09:30.
CalendarYears == {2024, 2025}
DayMinutes == {0, 570}
CalendarDates ==
    UNION {{datetime(y, m, d, mi) :
                d \in 1..days_in_month(y, m), mi \in DayMinutes} :
           y \in CalendarYears, m \in 1..12}

\* frequency, day_of_week, day_of_month of a call: the three frequencies
\* with every day selector of theirs, "none", and a name that is none of
\* the four.
CalculatorCalls ==
    {<<f, NoDay, NoDay>> : f \in {"none", "daily", "yearly"}}
    \cup {<<"weekly", w, NoDay>> : w \in {NoDay} \cup 0..6}
    \cup {<<"monthly", NoDay, d>> : d \in {NoDay} \cup 0..31}

\* The texts the offset parser is called with: those of the create
\* requests, the phrases, ISO durations and shorthands of its
\* documentation, and a text that is none of them.
ReminderTexts ==
    OffsetTexts
    \cup {OffsetText("", 1, " ", "hour", ""),
          OffsetText("", 1, " ", "hour", "before"),
          OffsetText("", 2, " ", "days", "before"),
          OffsetText("", 2, " ", "day", "before"),
          OffsetText("P", 1, "", "D", ""),
          OffsetText("", 30, "", "m", ""),
          OffsetText("", 7, "", "m", ""),
          OffsetText("", 1, "", "h", ""),
          OffsetText("", 1, "", "d", ""),
          OffsetText("", None, "", "banana", "")}

\* A call that has been made and has not returned.
Called(op, args) ==
    [NoResp EXCEPT !.op = op, !.status = "called", !.args = args]

\* A call returns.
Returned(call, value) ==
    [call EXCEPT !.status = "returned", !.value = value]

\* RecurrenceCalculator.calculate_next_due_date called on its own.
calculate_next_due_date_call ==
    /\ resp.op = "calculate_next_due_date"
    /\ resp.status = "called"
    /\ resp' = Returned(resp,
                   calculate_next_due_date(resp.args[1], resp.args[2],
                                           resp.args[3], resp.args[4]))
    /\ UNCHANGED <<tasks, next_task_id, audit, task_events, reminders,
                   reminder_events, jobs, stats, in_flight, workers>>

\* parse_recurrence_pattern called on its own.
parse_recurrence_pattern_call ==
    /\ resp.op = "parse_recurrence_pattern"
    /\ resp.status = "called"
    /\ resp' = Returned(resp, parse_recurrence_pattern(resp.args[1]))
    /\ UNCHANGED <<tasks, next_task_id, audit, task_events, reminders,
                   reminder_events, jobs, stats, in_flight, workers>>

\* A parsed text written as a pattern string and read back.
round_trip_call ==
    /\ resp.op = "round_trip"
    /\ resp.status = "called"
    /\ resp' = Returned(resp, round_trip(resp.args[1]))
    /\ UNCHANGED <<tasks, next_task_id, audit, task_events, reminders,
                   reminder_events, jobs, stats, in_flight, workers>>

\* parse_reminder_offset called on its own.
parse_reminder_offset_call ==
    /\ resp.op = "parse_reminder_offset"
    /\ resp.status = "called"
    /\ resp' = Returned(resp, parse_reminder_offset(resp.args[1]))
    /\ UNCHANGED <<tasks, next_task_id, audit, task_events, reminders,
                   reminder_events, jobs, stats, in_flight, workers>>

\* EventPublisher.publish_task_completed called on its own, for a pending
\* task of the given recurrence: the envelope goes to _publish, whose
\* return value is the call's.
publish_task_completed_call ==
    /\ resp.op = "publish_task_completed"
    /\ resp.status = "called"
    /\ LET task_id == resp.args[1]
           row == Task(resp.args[2], None)
           outcome == resp.args[3]
       IN  /\ task_events' =
                  _publish_topic(task_events,
                      publish_task_completed(task_id,
                          task_completed_data(task_id, row, is_recurring(row)),
                          is_recurring(row)),
                      outcome)
           /\ resp' = Returned(resp, _publish(outcome))
    /\ UNCHANGED <<tasks, next_task_id, audit, reminders, reminder_events,
                   jobs, stats, in_flight, workers>>

\* EventPublisher.publish_reminder_triggered called on its own.
publish_reminder_triggered_call ==
    /\ resp.op = "publish_reminder_triggered"
    /\ resp.status = "called"
    /\ LET outcome == resp.args[3]
       IN  /\ reminder_events' =
                  _publish_topic(reminder_events,
                      publish_reminder_triggered(resp.args[1], resp.args[2]),
                      outcome)
           /\ resp' = Returned(resp, _publish(outcome))
    /\ UNCHANGED <<tasks, next_task_id, audit, task_events, reminders,
                   jobs, stats, in_flight, workers>>

(***************************************************************************)
(* Creating a task with a recurrence pattern.                              *)
(***************************************************************************)
\* TaskRecurrence (schemas.py) and RecurrenceEnum (enums.py): the values
\* the request body and the tasks.recurrence column admit, as pattern
\* strings.  None of them has a day selector.
TaskRecurrence == {PatternString(f, "", NoDay) : f \in RecurrenceEnum}

\* POST /tasks and TaskService.create_task with a body that names a
\* recurrence and a due date.  The body is validated against TaskCreate
\* before the handler runs: a recurrence outside TaskRecurrence is answered
\* 422 and the service is not called.
create_task_request(recurrence, due_date, fault) ==
    /\ IF recurrence \notin TaskRecurrence
       THEN /\ resp' = [Reply("create_task", None, 422, "absent")
                          EXCEPT !.args = <<recurrence>>]
            /\ UNCHANGED <<tasks, next_task_id, audit>>
       ELSE IF fault # "ok"
       THEN /\ resp' = [Reply("create_task", None, 500, "absent")
                          EXCEPT !.args = <<recurrence>>]
            /\ UNCHANGED <<tasks, next_task_id, audit>>
       ELSE /\ next_task_id <= MaxTasks
            /\ Len(audit) < MaxAudit
            /\ tasks' = tasks @@ (next_task_id :>
                   [Task(recurrence.frequency, None)
                       EXCEPT !.due_date = due_date])
            /\ next_task_id' = next_task_id + 1
            /\ audit' = _create_audit_entry(audit, "task.created",
                                            next_task_id, NoData)
            /\ resp' = [Reply("create_task", next_task_id, 200, "absent")
                          EXCEPT !.args = <<recurrence>>]
    /\ UNCHANGED <<task_events, reminders, reminder_events, jobs, stats,
                   in_flight, workers>>

\* mcp_tools/create_recurring_task.execute.  The text goes through
\* parse_recurrence_pattern; an exception of the parser, an invalid result
\* and the TypeError of Task(completed=..., recurrence_pattern=...) (two
\* keywords models.Task does not declare) all end in success=False with
\* nothing added to the session.
mcp_create_recurring_task(recurrence, due_date) ==
    /\ LET parse_result == parse_recurrence_pattern(recurrence)
       IN  resp' = [Reply("mcp.create_recurring_task", None, 0, "false")
                      EXCEPT !.args = <<recurrence>>,
                             !.detail =
                                 IF parse_result.raises # ""
                                 THEN parse_result.raises
                                 ELSE IF ~parse_result.valid
                                 THEN parse_result.error_message
                                 ELSE "TypeError"]
    /\ UNCHANGED <<tasks, next_task_id, audit, task_events, reminders,
                   reminder_events, jobs, stats, in_flight, workers>>

\* TaskService.create_subtask, reached through POST /tasks/{id}/subtasks:
\* a row whose parent is the task of the path, which must exist; no audit
\* entry.
create_subtask(parent_task_id) ==
    /\ IF parent_task_id \notin DOMAIN tasks
       THEN /\ resp' = Reply("create_subtask", None, 404, "absent")
            /\ UNCHANGED <<tasks, next_task_id>>
       ELSE /\ next_task_id <= MaxTasks
            /\ tasks' = tasks @@ (next_task_id :> Task("none", parent_task_id))
            /\ next_task_id' = next_task_id + 1
            /\ resp' = Reply("create_subtask", next_task_id, 200, "absent")
    /\ UNCHANGED <<audit, task_events, reminders, reminder_events, jobs, stats,
                   in_flight, workers>>

\* TaskService.get_recurring_chain for an existing task: the loop at lines
\* 750-756 walks parent_task_id up to a row without parent (or to a parent
\* that is not there), the loop at lines 760-773 walks down from there,
\* each time to the first row the query for a child returns (taken here as
\* the one with the least id).  The loops are run for as many rounds as
\* the table has rows, plus one: `terminates` tells whether both were at
\* their end by then.
get_recurring_chain(table, task_id) ==
    LET rounds == Cardinality(DOMAIN table) + 1
        parent(t) == IF t \in DOMAIN table THEN table[t].parent_task_id
                                           ELSE None
        first_child(t) ==
            LET children == {c \in DOMAIN table : table[c].parent_task_id = t}
            IN  IF t = None \/ children = {} THEN None
                ELSE CHOOSE c \in children : \A d \in children : c <= d
        up[k \in 0..rounds] ==
            IF k = 0 THEN task_id
            ELSE IF parent(up[k - 1]) # None THEN parent(up[k - 1])
                                             ELSE up[k - 1]
        root_task == IF up[rounds] \in DOMAIN table THEN up[rounds] ELSE None
        down[k \in 0..rounds] ==
            IF k = 0 THEN root_task ELSE first_child(down[k - 1])
    IN  [terminates |-> parent(up[rounds]) = None /\ down[rounds] = None,
         chain |-> [k \in 1..Cardinality({j \in 0..rounds : down[j] # None})
                       |-> down[k - 1]]]

(***************************************************************************)
(* Deleting a task.  models.Task declares children, reminders and          *)
(* audit_entries with cascade="all, delete-orphan": Session.delete(task)   *)
(* deletes the rows of the three collections with the task, and the        *)
(* children's collections with the children.                               *)
(***************************************************************************)
\* The task rows Session.delete marks for the rows `ids`: the rows
\* themselves and, through Task.children, every row below them.
RECURSIVE delete_cascade(_, _)
delete_cascade(table, ids) ==
    LET marked == ids \cup {c \in DOMAIN table :
                               table[c].parent_task_id \in ids}
    IN  IF marked = ids THEN ids ELSE delete_cascade(table, marked)

\* The tasks table after db.delete(task); db.commit().
delete_rows(table, task_id) ==
    LET gone == delete_cascade(table, {task_id})
    IN  [t \in DOMAIN table \ gone |-> table[t]]

\* The reminders table after the same commit: Task.reminders cascades.
delete_reminders(table, task_id) ==
    LET gone == delete_cascade(tasks, {task_id})
    IN  [r \in {x \in DOMAIN table : table[x].task_id \notin gone} |->
            table[r]]

\* The audit log after the same commit: Task.audit_entries cascades.
delete_audit_entries(log, task_id) ==
    LET gone == delete_cascade(tasks, {task_id})
    IN  SelectSeq(log, LAMBDA entry : entry.task_id \notin gone)

\* How the audit_log_entries table was built.  Base.metadata.create_all
\* (database.py) gives audit_log_entries.task_id the foreign key of
\* models.AuditLogEntry; the migration creates the table without one.
AuditSchemas == {"create_all", "migration"}

\* TaskService.delete_task, reached through DELETE /tasks/{id}.  The audit
\* entry is inserted after the delete is committed and names the deleted
\* id: under the foreign key the insert fails, and _create_audit_entry
\* rolls its own transaction back and returns.
delete_task(task_id, fault, schema) ==
    /\ IF task_id \notin DOMAIN tasks
       THEN /\ resp' = Reply("delete_task", None, 404, "absent")
            /\ UNCHANGED <<tasks, reminders, audit>>
       ELSE IF fault # "ok"
       THEN /\ resp' = Reply("delete_task", task_id, 500, "absent")
            /\ UNCHANGED <<tasks, reminders, audit>>
       ELSE LET log == delete_audit_entries(audit, task_id)
            IN  /\ Len(log) < MaxAudit
                /\ tasks' = delete_rows(tasks, task_id)
                /\ reminders' = delete_reminders(reminders, task_id)
                /\ audit' = IF schema = "create_all"
                            THEN log
                            ELSE _create_audit_entry(log, "task.deleted",
                                                     task_id, NoData)
                /\ resp' = Reply("delete_task", task_id, 200, "true")
    /\ UNCHANGED <<next_task_id, task_events, reminder_events, jobs, stats,
                   in_flight, workers>>

\* mcp_tools/delete_task.execute: the same delete and commit, no audit
\* entry.
mcp_delete_task(task_id) ==
    /\ IF task_id \notin DOMAIN tasks
       THEN /\ resp' = Reply("mcp.delete_task", None, 0, "false")
            /\ UNCHANGED <<tasks, reminders, audit>>
       ELSE /\ tasks' = delete_rows(tasks, task_id)
            /\ reminders' = delete_reminders(reminders, task_id)
            /\ audit' = delete_audit_entries(audit, task_id)
            /\ resp' = Reply("mcp.delete_task", task_id, 0, "true")
    /\ UNCHANGED <<next_task_id, task_events, reminder_events, jobs, stats,
                   in_flight, workers>>

(***************************************************************************)
(* services/notification: the connection registry and the consumer of      *)
(* topic reminders.  asyncio runs one coroutine at a time and switches at  *)
(* an await that suspends: an action below is the code between two such    *)
(* awaits.  `async with self._lock` never suspends, because no holder of   *)
(* the lock awaits inside it.                                              *)
(***************************************************************************)
\* The users that open sockets, as the str of the path /ws/{user_id}.
Users == {UserId("str", 1), UserId("str", 2)}

\* The sockets that are opened: two by user "1", one by user "2".
WebSockets ==
    {WebSocket(UserId("str", 1), 1), WebSocket(UserId("str", 1), 2),
     WebSocket(UserId("str", 2), 1)}

\* What send_text does on a socket whose peer is there.
SendOutcomes == {"ok", "raises"}

\* ConnectionManager.connect after `await websocket.accept()`: the dict
\* after the add.
connect(connections, websocket, user_id) ==
    IF user_id \in DOMAIN connections
    THEN [connections EXCEPT ![user_id] = @ \cup {websocket}]
    ELSE connections @@ (user_id :> {websocket})

\* disconnect that leaves the registry as it is.
disconnect_keeps(connections, user_id, websocket) == connections

\* ConnectionManager.disconnect: one socket is discarded, or with
\* websocket=None the whole set cleared; an empty set is deleted with its
\* key.
disconnect(connections, user_id, websocket) ==
    IF user_id \notin DOMAIN connections THEN connections
    ELSE LET rest == IF websocket # NoSocket
                     THEN connections[user_id] \ {websocket}
                     ELSE {}
         IN  IF rest = {}
             THEN [u \in DOMAIN connections \ {user_id} |-> connections[u]]
             ELSE [connections EXCEPT ![user_id] = rest]

\* ConnectionManager.is_user_connected.
is_user_connected(connections, user_id) ==
    user_id \in DOMAIN connections /\ connections[user_id] # {}

\* send_personal_message lines 49-50: disconnect for every socket whose
\* send raised.
RECURSIVE disconnect_all(_, _, _)
disconnect_all(connections, user_id, websockets) ==
    IF websockets = {} THEN connections
    ELSE LET ws == CHOOSE w \in websockets : TRUE
         IN  disconnect_all(disconnect(connections, user_id, ws), user_id,
                            websockets \ {ws})

\* The decoded payload of a delivery.  ReminderEvent.from_dict reads
\* user_id and task_id with dict.get and converts neither: a backend
\* envelope carries user_id as an int (event_publisher.ReminderEvent).
Payload(data) ==
    [valid |-> TRUE, producer |-> "backend",
     user_id |-> UserId("int", data.user_id), task_id |-> data.task_id]

\* Payloads of other producers on the topic: one whose user_id is the str
\* the sockets are registered under, and bytes that are no JSON.
OtherPayloads ==
    {[valid |-> TRUE, producer |-> "other", user_id |-> UserId("str", 1),
      task_id |-> 1],
     [valid |-> FALSE, producer |-> "other", user_id |-> UserId("str", 0),
      task_id |-> 0]}

\* notifications_sent += sent that overwrites the counter.
add_sent_overwrites(_stats, sent) ==
    [_stats EXCEPT !.notifications_sent = IF sent > 0 THEN sent ELSE @,
                   !.events_received = @ + 1]

\* process_event lines 109-116 after send_personal_message has returned
\* `sent`.
add_sent(_stats, sent) ==
    [_stats EXCEPT !.notifications_sent = IF sent > 0 THEN @ + sent ELSE @,
                   !.events_received = @ + 1]

\* What a caller of send_personal_message answers, and the locals the call
\* ended with: args is <<user_id, copy, disconnected>>, value the return
\* value.
Sent(send) ==
    [Reply(send.caller, send.data.task_id, 0, "true")
        EXCEPT !.args = <<send.user_id, send.copy, send.disconnected>>,
               !.value = send.successful,
               !.detail = send.data.producer]

\* The workers after a call of send_personal_message has returned to its
\* caller: process_event goes on to line 109, the route answers.
returned(w, caller, send) ==
    LET connections == disconnect_all(w.active_connections, send.user_id,
                                      send.disconnected)
    IN  IF send.caller = "process_event"
        THEN [w EXCEPT !.active_connections = connections,
                       !.sends[caller] = NoSend,
                       !._stats = add_sent(@, send.successful),
                       !.handled = @ + 1,
                       !.successful = @ + send.successful]
        ELSE [w EXCEPT !.active_connections = connections,
                       !.sends[caller] = NoSend]

\* send_personal_message from its first line to its first suspension, or
\* to its return when the user has no key.
send_personal_message(caller, op, data) ==
    LET user_id == data.user_id
        connections == workers.active_connections
    IN  IF user_id \notin DOMAIN connections
        THEN /\ workers' = returned(workers, caller,
                                    Send(op, data, user_id, {}))
             /\ resp' = Sent(Send(op, data, user_id, {}))
        ELSE /\ workers' = [workers EXCEPT !.sends[caller] =
                               Send(op, data, user_id, connections[user_id])]
             /\ resp' = NoResp

\* websocket_endpoint up to its receive loop.
websocket_endpoint(websocket) ==
    /\ websocket \notin workers.accepted
    /\ workers' = [workers EXCEPT
           !.accepted = @ \cup {websocket},
           !.active_connections = connect(@, websocket, websocket.user_id)]
    /\ resp' = [Reply("connect", None, 0, "absent")
                  EXCEPT !.args = <<websocket>>]
    /\ UNCHANGED <<tasks, next_task_id, audit, task_events, reminders,
                   reminder_events, jobs, stats, in_flight>>

\* websocket_endpoint when its socket's peer goes: receive_text raises
\* WebSocketDisconnect and the handler calls disconnect(user_id), without
\* the socket.
websocket_disconnect(websocket) ==
    /\ websocket \in workers.accepted \ workers.gone
    /\ workers' = [workers EXCEPT
           !.gone = @ \cup {websocket},
           !.active_connections = disconnect(@, websocket.user_id, NoSocket)]
    /\ resp' = [Reply("disconnect", None, 0, "absent")
                  EXCEPT !.args = <<websocket>>]
    /\ UNCHANGED <<tasks, next_task_id, audit, task_events, reminders,
                   reminder_events, jobs, stats, in_flight>>

\* POST /notify/{user_id}.
send_notification(caller, user_id) ==
    /\ workers.sends[caller] = NoSend
    /\ send_personal_message(caller, "send_notification",
           [valid |-> TRUE, producer |-> "route", user_id |-> user_id,
            task_id |-> None])
    /\ UNCHANGED <<tasks, next_task_id, audit, task_events, reminders,
                   reminder_events, jobs, stats, in_flight>>

\* ReminderEventConsumer._handle_event with process_event, for one
\* delivery: bytes that json.loads refuses count as an error; a user that
\* is_user_connected denies gets nothing; otherwise the handler goes into
\* send_personal_message.
_handle_event(caller, data) ==
    /\ workers.sends[caller] = NoSend
    /\ workers.handled
         + Cardinality({c \in Callers :
                           workers.sends[c].caller = "process_event"})
         < MaxStats
    /\ IF ~data.valid
       THEN /\ workers' = [workers EXCEPT !._stats.errors_count = @ + 1,
                                          !.handled = @ + 1]
            /\ resp' = [Reply("_handle_event", None, 0, "false")
                          EXCEPT !.detail = data.producer]
       ELSE IF ~is_user_connected(workers.active_connections, data.user_id)
       THEN /\ workers' = returned(workers, caller,
                              Send("process_event", data, data.user_id, {}))
            /\ resp' = Sent(Send("process_event", data, data.user_id, {}))
       ELSE send_personal_message(caller, "process_event", data)
    /\ UNCHANGED <<tasks, next_task_id, audit, task_events, reminders,
                   reminder_events, jobs, stats, in_flight>>

\* A suspended send_personal_message when `await ws.send_text` comes back
\* for one socket of its copy: the send went through or raised (it raises
\* on a socket whose peer has gone).  After the last socket the call runs
\* to its return, and its caller to its own.
send_text(caller, websocket, outcome) ==
    /\ workers.sends[caller] # NoSend
    /\ websocket \in workers.sends[caller].todo
    /\ websocket \in workers.gone => outcome = "raises"
    /\ LET send == workers.sends[caller]
           after == [send EXCEPT
               !.todo = @ \ {websocket},
               !.successful = IF outcome = "ok" THEN @ + 1 ELSE @,
               !.disconnected = IF outcome = "ok" THEN @
                                ELSE @ \cup {websocket}]
       IN  IF after.todo # {}
           THEN /\ workers' = [workers EXCEPT !.sends[caller] = after]
                /\ resp' = NoResp
           ELSE /\ workers' = returned(workers, caller, after)
                /\ resp' = Sent(after)
    /\ UNCHANGED <<tasks, next_task_id, audit, task_events, reminders,
                   reminder_events, jobs, stats, in_flight>>

(***************************************************************************)
(* The task pipeline: backend handlers and the worker                      *)
(***************************************************************************)
Init ==
    /\ tasks = <<>>
    /\ next_task_id = 1
    /\ audit = <<>>
    /\ task_events = <<>>
    /\ reminders = <<>>
    /\ reminder_events = <<>>
    /\ jobs = {}
    /\ stats = [events_processed |-> 0, tasks_created |-> 0, errors_count |-> 0]
    /\ in_flight = NoCalls
    /\ workers = NoWorkers
    /\ resp = NoResp

Next ==
    \/ \E r \in RecurrenceEnum, f \in StoreFaults : create_task(r, f)
    \/ \E t \in TaskIds, b \in TaskUpdates, f \in StoreFaults, now \in Times :
          update_task(t, b.completed, b.recurrence, f, now)
    \/ \E t \in TaskIds : update_priority(t)
    \/ \E t \in TaskIds : add_tags(t)
    \/ \E t \in TaskIds : remove_tags(t)
    \/ \E t \in TaskIds, p \in PublishInputs, f \in StoreFaults, now \in Times :
          complete_task(t, p.publish_event, f, p.outcome, now)
    \/ crud_create_task
    \/ \E t \in TaskIds, b \in CompletedUpdates :
          crud_update_task(t, b.completed, b.recurrence)
    \/ \E t \in TaskIds : mcp_complete_task(t)
    \/ \E t \in TaskIds, c \in CompletedInputs : mcp_update_task(t, c)
    \/ mcp_add_task
    \/ \E i \in 1..MaxAudit : process_event(i)

Spec == Init /\ [][Next]_vars

(***************************************************************************)
(* The reminder pipeline.  No handler of the backend gets as far as        *)
(* inserting a Reminder row (both create handlers pass offset_minutes to   *)
(* the Reminder constructor, which models.Reminder does not declare), so   *)
(* the rows are given: the table starts as any table of MaxReminders       *)
(* well-formed rows owned by task 1, and the scheduler holds the jobs the  *)
(* rows name.                                                              *)
(***************************************************************************)
ReminderInit ==
    /\ tasks = (1 :> Task("none", None))
    /\ next_task_id = 2
    /\ audit = <<>>
    /\ task_events = <<>>
    /\ \E table \in [ReminderIds -> ReminderStatusEnum \X BOOLEAN],
          at \in Times :
          reminders = [r \in ReminderIds |->
              Reminder(1, at, table[r][1],
                       IF table[r][2] THEN _generate_job_id(1, r, at)
                                      ELSE NoJob)]
    /\ reminder_events = <<>>
    /\ jobs = {reminders[r].dapr_job_id : r \in ReminderIds} \ {NoJob}
    /\ stats = [events_processed |-> 0, tasks_created |-> 0, errors_count |-> 0]
    /\ in_flight = NoCalls
    /\ workers = NoWorkers
    /\ resp = NoResp

ReminderNext ==
    \/ \E r \in 1..(MaxReminders + 1), s \in SchedulerStates :
          cancel_reminder(r, s)
    \/ \E r \in 1..(MaxReminders + 1), s \in SchedulerStates :
          mcp_cancel_reminder(r, s)
    \/ \E d \in JobPayloads : trigger_job(d)
    \/ \E d \in JobPayloads, o \in PublishOutcomes : handle_trigger(d, o)

ReminderSpec == ReminderInit /\ [][ReminderNext]_vars

(***************************************************************************)
(* The reminder pipeline with its requests interleaved: the same rows,     *)
(* the handlers taken step by step.                                        *)
(***************************************************************************)
RaceNext ==
    \/ \E op \in CancelOps, r \in 1..(MaxReminders + 1) :
          cancel_reminder_await(op, r)
    \/ \E s \in SchedulerStates : cancel_reminder_resume(s)
    \/ \E d \in JobPayloads : trigger_job_lookup(d)
    \/ trigger_job_commit
    \/ \E d \in JobPayloads, o \in PublishOutcomes : handle_trigger(d, o)

RaceSpec == ReminderInit /\ [][RaceNext]_vars

(***************************************************************************)
(* Creating and scheduling reminders: a store that holds task 1, with or   *)
(* without a due date, and no reminder; the create handlers and the job    *)
(* client's scheduling calls.                                              *)
(***************************************************************************)
\* The task the job client is called for: the one the store holds.
OwnerIds == {1}

CreateInit ==
    /\ \E due \in DueDates :
          tasks = (1 :> [Task("none", None) EXCEPT !.due_date = due])
    /\ next_task_id = 2
    /\ audit = <<>>
    /\ task_events = <<>>
    /\ reminders = <<>>
    /\ reminder_events = <<>>
    /\ jobs = {}
    /\ stats = [events_processed |-> 0, tasks_created |-> 0, errors_count |-> 0]
    /\ in_flight = NoCalls
    /\ workers = NoWorkers
    /\ resp = NoResp

CreateNext ==
    \/ \E now \in CallTimes, s \in SchedulerStates :
          \E request \in RequestsAt[now] :
              create_reminder(request, now, s)
    \/ \E now \in CallTimes : \E request \in RequestsAt[now] :
          mcp_create_reminder(request, now)
    \/ \E t \in TaskIds : schedule_test_job(t)
    \/ \E t \in OwnerIds, r \in ReminderIds, now \in Clock,
          s \in SchedulerStates : schedule_reminder(t, r, now, s)
    \/ \E t \in OwnerIds, r \in ReminderIds, now \in Clock,
          s \in SchedulerStates : client_cancel_reminder(t, r, now, s)

CreateSpec == CreateInit /\ [][CreateNext]_vars

(***************************************************************************)
(* The functions of utils/ and the publisher called on their own, over an  *)
(* empty store: one call with any of the arguments below, and its return.  *)
(***************************************************************************)
UtilsInit ==
    /\ tasks = <<>>
    /\ next_task_id = 1
    /\ audit = <<>>
    /\ task_events = <<>>
    /\ reminders = <<>>
    /\ reminder_events = <<>>
    /\ jobs = {}
    /\ stats = [events_processed |-> 0, tasks_created |-> 0, errors_count |-> 0]
    /\ in_flight = NoCalls
    /\ workers = NoWorkers
    /\ \/ \E d \in CalendarDates, c \in CalculatorCalls :
              resp = Called("calculate_next_due_date",
                            <<d, c[1], c[2], c[3]>>)
       \/ \E text \in RecurrenceTexts :
              resp = Called("parse_recurrence_pattern", <<text>>)
       \/ \E text \in RecurrenceTexts :
              resp = Called("round_trip", <<text>>)
       \/ \E text \in ReminderTexts :
              resp = Called("parse_reminder_offset", <<text>>)
       \/ \E t \in TaskIds, r \in RecurrenceEnum, o \in PublishOutcomes :
              resp = Called("publish_task_completed", <<t, r, o>>)
       \/ \E r \in ReminderIds, t \in TaskIds, o \in PublishOutcomes :
              resp = Called("publish_reminder_triggered", <<r, t, o>>)

UtilsNext ==
    \/ calculate_next_due_date_call
    \/ parse_recurrence_pattern_call
    \/ round_trip_call
    \/ parse_reminder_offset_call
    \/ publish_task_completed_call
    \/ publish_reminder_triggered_call

UtilsSpec == UtilsInit /\ [][UtilsNext]_vars

(***************************************************************************)
(* The life of a recurring task: a store that holds task 1 with any        *)
(* recurrence and due date, created through the service (one task.created  *)
(* entry), with or without reminders; the handlers that create, complete   *)
(* and delete tasks and create subtasks.                                   *)
(***************************************************************************)
\* The due dates of the tasks: 2025-01-01T00:00Z and 2025-01-31T00:00Z.
TaskDues == {datetime(2025, 1, 1, 0), datetime(2025, 1, 31, 0)}

\* The due date of a create request: 2025-01-01T00:00Z.
RequestDues == {datetime(2025, 1, 1, 0)}

\* The recurrence of a POST /tasks body: the four plain values and two
\* patterns with a day selector.
RequestPatterns ==
    TaskRecurrence
    \cup {PatternString("weekly", "monday", NoDay),
          PatternString("monthly", "", 31)}

\* The recurrence texts the MCP tool is called with.
ToolTexts ==
    {<<Word("monday")>>, <<Numeral(31, "")>>, <<Word("monthly")>>,
     <<Word("banana")>>}

\* How the bus answers the publish of a completion: the failures are those
\* of Spec.
BusAnswers == {"ok"}

LifecycleInit ==
    /\ \E r \in RecurrenceEnum, due \in TaskDues :
          tasks = (1 :> [Task(r, None) EXCEPT !.due_date = due])
    /\ next_task_id = 2
    /\ audit = <<AuditLogEntry("task.created", 1, NoData)>>
    /\ task_events = <<>>
    /\ \E reminded \in BOOLEAN, at \in Times :
          reminders = IF reminded
                      THEN [r \in ReminderIds |->
                               Reminder(1, at, PENDING,
                                        _generate_job_id(1, r, at))]
                      ELSE <<>>
    /\ reminder_events = <<>>
    /\ jobs = {reminders[r].dapr_job_id : r \in DOMAIN reminders}
    /\ stats = [events_processed |-> 0, tasks_created |-> 0, errors_count |-> 0]
    /\ in_flight = NoCalls
    /\ workers = NoWorkers
    /\ resp = NoResp

LifecycleNext ==
    \/ \E r \in RequestPatterns, due \in RequestDues, f \in StoreFaults :
          create_task_request(r, due, f)
    \/ \E text \in ToolTexts, due \in RequestDues :
          mcp_create_recurring_task(text, due)
    \/ \E t \in TaskIds, o \in BusAnswers, f \in StoreFaults, now \in Times :
          complete_task(t, TRUE, f, o, now)
    \/ \E t \in TaskIds : mcp_complete_task(t)
    \/ \E t \in TaskIds, f \in StoreFaults, schema \in AuditSchemas :
          delete_task(t, f, schema)
    \/ \E t \in TaskIds : mcp_delete_task(t)
    \/ \E t \in TaskIds : create_subtask(t)

LifecycleSpec == LifecycleInit /\ [][LifecycleNext]_vars

(***************************************************************************)
(* The notification service: reminder 1 of task 1 is pending, its trigger  *)
(* has fired and the backend's reminder.triggered envelope is on the       *)
(* topic; sockets open and close, the route and the consumer send.         *)
(***************************************************************************)
NotifyInit ==
    /\ tasks = (1 :> Task("none", None))
    /\ next_task_id = 2
    /\ audit = <<>>
    /\ task_events = <<>>
    /\ \E at \in Times :
          reminders = (1 :> Reminder(1, at, PENDING,
                                     _generate_job_id(1, 1, at)))
    /\ reminder_events = <<publish_reminder_triggered(1, 1)>>
    /\ jobs = {}
    /\ stats = [events_processed |-> 0, tasks_created |-> 0, errors_count |-> 0]
    /\ in_flight = NoCalls
    /\ workers = NoWorkers
    /\ resp = NoResp

NotifyNext ==
    \/ \E ws \in WebSockets : websocket_endpoint(ws)
    \/ \E ws \in WebSockets : websocket_disconnect(ws)
    \/ \E c \in Callers, u \in Users : send_notification(c, u)
    \/ \E c \in Callers, i \in 1..MaxPublished :
          /\ i <= Len(reminder_events)
          /\ _handle_event(c, Payload(reminder_events[i]))
    \/ \E c \in Callers, data \in OtherPayloads : _handle_event(c, data)
    \/ \E c \in Callers, ws \in WebSockets, o \in SendOutcomes :
          send_text(c, ws, o)

NotifySpec == NotifyInit /\ [][NotifyNext]_vars

\* The same with the event loop's guarantee that a coroutine that can run
\* is run.
NotifyFairSpec == NotifySpec /\ WF_vars(NotifyNext)

(***************************************************************************)
(* The consume loops of the two workers.  lifespan has built each consumer *)
(* and created its start_consuming task; the event loop runs that task up  *)
(* to its next sleep whenever it is ready, and lifespan calls stop() once, *)
(* when the application that entered it leaves.                            *)
(***************************************************************************)
\* DaprClient.subscribe returns a subscription or raises.
SubscribeOutcomes == {"ok", "raises"}

\* start_consuming from `self.dapr_client.subscribe(...)` to the sleep it
\* reaches: sleep(1) of the inner loop, or sleep(5) of the except branch.
subscribe(outcome) == IF outcome = "ok" THEN "sleep(1)" ELSE "sleep(5)"

\* start_consuming, from the first run of its task to the first sleep; it
\* begins with self.is_running = True, whatever the flag was.
start_consuming(c, outcome) ==
    /\ workers.consumers[c].loop = "created"
    /\ workers' = [workers EXCEPT !.consumers[c] =
           [@ EXCEPT !.is_running = TRUE,
                     !.loop = subscribe(outcome)]]
    /\ UNCHANGED <<tasks, next_task_id, audit, task_events, reminders,
                   reminder_events, jobs, stats, in_flight, resp>>

\* start_consuming, from the end of a sleep to the next sleep or to its
\* return.  After sleep(1) the inner loop sleeps again while is_running
\* holds; once it does not, both loops end.  After sleep(5) the outer
\* loop subscribes again while is_running holds.
start_consuming_resume(c, outcome) ==
    /\ workers.consumers[c].loop \in {"sleep(1)", "sleep(5)"}
    /\ workers' = [workers EXCEPT !.consumers[c].loop =
           IF ~workers.consumers[c].is_running THEN "returned"
           ELSE IF @ = "sleep(1)" THEN "sleep(1)"
           ELSE subscribe(outcome)]
    /\ UNCHANGED <<tasks, next_task_id, audit, task_events, reminders,
                   reminder_events, jobs, stats, in_flight, resp>>

\* lifespan after its yield: `await consumer.stop()`, which sets
\* is_running = False and awaits nothing.
stop(c) ==
    /\ ~workers.consumers[c].stopped
    /\ workers' = [workers EXCEPT !.consumers[c] =
           [@ EXCEPT !.is_running = FALSE, !.stopped = TRUE]]
    /\ UNCHANGED <<tasks, next_task_id, audit, task_events, reminders,
                   reminder_events, jobs, stats, in_flight, resp>>

\* A task.completed envelope in the shape TaskEventConsumer.process_event
\* reads: the task's fields at the top level.
FlatTaskCompleted(task_id, recurrence) ==
    [event_type |-> "task.completed", task_id |-> task_id,
     recurrence |-> recurrence, user_id |-> 1]

\* Task 1 (daily) and task 2 (not recurring) are completed; topic
\* task-events holds a flat task.completed envelope for task 1 and the
\* backend's envelope for task 2.
WorkerInit ==
    /\ \E now \in Times :
          /\ tasks = (1 :> [Task("daily", None) EXCEPT
                               !.status = COMPLETED, !.completed_at = now])
                      @@ (2 :> [Task("none", None) EXCEPT
                               !.status = COMPLETED, !.completed_at = now])
          /\ task_events =
                 <<FlatTaskCompleted(1, "daily"),
                   publish_task_completed(2,
                       task_completed_data(2, tasks[2], FALSE), FALSE)>>
    /\ next_task_id = 3
    /\ audit = <<>>
    /\ reminders = <<>>
    /\ reminder_events = <<>>
    /\ jobs = {}
    /\ stats = [events_processed |-> 0, tasks_created |-> 0, errors_count |-> 0]
    /\ in_flight = NoCalls
    /\ workers = NoWorkers
    /\ resp = NoResp

WorkerNext ==
    \/ \E c \in ConsumerNames, o \in SubscribeOutcomes : start_consuming(c, o)
    \/ \E c \in ConsumerNames, o \in SubscribeOutcomes :
          start_consuming_resume(c, o)
    \/ \E c \in ConsumerNames : stop(c)
    \/ \E i \in 1..MaxAudit : process_event(i)

WorkerSpec == WorkerInit /\ [][WorkerNext]_vars

\* The same with the event loop's guarantee that a task that is ready, or
\* whose sleep has ended, is run.
WorkerFairSpec ==
    /\ WorkerSpec
    /\ \A c \in ConsumerNames :
          /\ WF_vars(\E o \in SubscribeOutcomes : start_consuming(c, o))
          /\ WF_vars(\E o \in SubscribeOutcomes :
                        start_consuming_resume(c, o))

(***************************************************************************)
(* Properties of the task pipeline (Spec)                                  *)
(***************************************************************************)
\* The rows whose parent is task t.
ChildrenOf(table, t) ==
    {c \in DOMAIN table : table[c].parent_task_id = t}

\* The step is a request to TaskService.complete_task for task t that
\* answered success=true.
Completed(t) ==
    /\ resp'.op = "complete_task"
    /\ resp'.success = "true"
    /\ resp'.id = t

\* C1: a successful complete of a pending task T adds exactly one Task row
\* when T.recurrence is daily, weekly or monthly, and that row has
\* parent_task_id = T.id and status pending; it adds no row when
\* T.recurrence is none.
C1_NextOccurrence ==
    [][\A t \in TaskIds :
          Completed(t) =>
              LET added == DOMAIN tasks' \ DOMAIN tasks
              IN  /\ tasks[t].status = PENDING
                  /\ IF tasks[t].recurrence \in {"daily", "weekly", "monthly"}
                     THEN /\ Cardinality(added) = 1
                          /\ \A n \in added :
                                /\ tasks'[n].parent_task_id = t
                                /\ tasks'[n].status = PENDING
                     ELSE /\ tasks[t].recurrence = "none"
                          /\ added = {}]_vars

\* C1 happens: a recurring task was completed and its next occurrence is
\* in the table.
C1_Witness ==
    /\ resp.op = "complete_task"
    /\ resp.success = "true"
    /\ resp.next_occurrence \in DOMAIN tasks
    /\ tasks[resp.next_occurrence].parent_task_id = resp.id
    /\ tasks[resp.id].recurrence \in {"daily", "weekly", "monthly"}

\* C2 as stated: once a task is completed, no operation returns it to
\* pending.
C2_Terminal ==
    [][\A t \in DOMAIN tasks :
          tasks[t].status = COMPLETED => tasks'[t].status = COMPLETED]_vars

\* C2, amended: a completed task returns to pending only through
\* TaskService.update_task with completed=false, which clears completed_at
\* with it; complete, priority and tag changes, the crud helper, the MCP
\* tools and update_task with any other body leave it completed.
C2_ReopenOnlyByUpdate ==
    [][\A t \in DOMAIN tasks :
          (tasks[t].status = COMPLETED /\ tasks'[t].status # COMPLETED) =>
              /\ \E f \in StoreFaults, now \in Times :
                    update_task(t, "false", "unset", f, now)
              /\ tasks'[t].status = PENDING
              /\ tasks'[t].completed_at = None]_vars

\* C2 happens: a task that the audit log shows completed and then updated
\* is still completed.
C2_Witness ==
    \E t \in DOMAIN tasks, i, j \in DOMAIN audit :
        /\ i < j
        /\ audit[i].event_type = "task.completed" /\ audit[i].task_id = t
        /\ audit[j].event_type = "task.updated" /\ audit[j].task_id = t
        /\ tasks[t].status = COMPLETED

\* C3: in every reachable state, for every task, completed_at is non-null
\* if and only if status is completed.
C3_CompletedAtIffCompleted ==
    \A t \in DOMAIN tasks :
        (tasks[t].completed_at # None) <=> (tasks[t].status = COMPLETED)

\* C3 happens: a task is completed with its timestamp set, and it got there
\* through update_task's flag, not through complete.
C3_Witness ==
    \E t \in DOMAIN tasks :
        /\ tasks[t].status = COMPLETED /\ tasks[t].completed_at # None
        /\ \A i \in DOMAIN audit :
              ~(audit[i].event_type = "task.completed" /\ audit[i].task_id = t)

\* C4: complete on a task that is already completed, through TaskService
\* or through the MCP tool, returns success=false without raising, leaves
\* every Task row and the audit log as they were, and publishes nothing.
C4_AlreadyCompleted ==
    [][\A t \in DOMAIN tasks :
          (/\ tasks[t].status = COMPLETED
           /\ \/ \E p \in PublishInputs, f \in StoreFaults, now \in Times :
                    complete_task(t, p.publish_event, f, p.outcome, now)
              \/ mcp_complete_task(t)) =>
              /\ resp'.success = "false"
              /\ resp'.http \in {0, 200}
              /\ UNCHANGED <<tasks, next_task_id, audit, task_events>>]_vars

\* C4 happens: TaskService.complete_task has answered success=false for a
\* completed task.
C4_Witness ==
    /\ resp.op = "complete_task"
    /\ resp.success = "false"
    /\ resp.id \in DOMAIN tasks
    /\ tasks[resp.id].status = COMPLETED

\* C5 as stated: when creating the next occurrence fails during complete(T)
\* of a recurring task, T is persisted as completed with completed_at set
\* and the audit log holds an entry for the completion.
C5_CompletionSurvivesFailure ==
    (resp.op = "complete_task" /\ resp.http = 500 /\ resp.is_recurring) =>
        /\ tasks[resp.id].status = COMPLETED
        /\ tasks[resp.id].completed_at # None
        /\ \E i \in DOMAIN audit :
              audit[i].event_type = "task.completed" /\ audit[i].task_id = resp.id

\* The answers of the bus that make a publish fail.
PublishFailures == PublishOutcomes \ {"ok"}

\* C6: when publishing task.completed fails (non-2xx answer, bus
\* unreachable, exception in the helper), complete(T) still returns
\* success=true with event_published=false; T is completed, its next
\* occurrence and its audit entry are there, and the topic got nothing.
C6_PublishFailureKeepsCompletion ==
    [][(resp'.op = "complete_task" /\ resp'.bus \in PublishFailures) =>
          LET t == resp'.id
          IN  /\ resp'.http = 200
              /\ resp'.success = "true"
              /\ resp'.event_published = FALSE
              /\ tasks[t].status = PENDING
              /\ tasks'[t].status = COMPLETED
              /\ tasks'[t].completed_at # None
              /\ tasks[t].recurrence # "none" =>
                    /\ resp'.next_occurrence \in DOMAIN tasks' \ DOMAIN tasks
                    /\ tasks'[resp'.next_occurrence].parent_task_id = t
              /\ audit' = Append(audit, audit'[Len(audit')])
              /\ audit'[Len(audit')].event_type = "task.completed"
              /\ audit'[Len(audit')].task_id = t
              /\ task_events' = task_events]_vars

\* C6 happens: a recurring task was completed while the bus could not be
\* reached.
C6_Witness ==
    /\ resp.op = "complete_task"
    /\ resp.bus = "request_error"
    /\ resp.is_recurring
    /\ resp.success = "true"

C8_StatusOnlyLeavesPending ==
    [][\A r \in DOMAIN reminders :
          reminders'[r].status # reminders[r].status =>
              /\ reminders[r].status = PENDING
              /\ reminders'[r].status \in {SENT, FAILED, CANCELLED}]_vars

\* The reminder.triggered envelopes the topic holds for reminder r.
Triggered(r) ==
    {i \in DOMAIN reminder_events :
        /\ reminder_events[i].event_type = "reminder.triggered"
        /\ reminder_events[i].reminder_id = r}

\* C9 as stated: however often the trigger callback of a reminder is
\* delivered, reminder.triggered is published for it at most once.
C9_TriggeredAtMostOnce ==
    \A r \in 1..(MaxReminders + 1) : Cardinality(Triggered(r)) <= 1

\* C10 as stated: trigger_job answers "ignored", publishes nothing and
\* changes no Reminder row whenever the type is not "reminder", the
\* reminder_id matches no Reminder, or the Reminder is sent, cancelled or
\* failed.
C10_Ignored ==
    [][\A d \in JobPayloads :
          (/\ trigger_job(d)
           /\ \/ d.type # "reminder"
              \/ d.reminder_id \notin DOMAIN reminders
              \/ reminders[d.reminder_id].status \in {SENT, CANCELLED, FAILED}) =>
              /\ resp'.status = "ignored"
              /\ UNCHANGED <<reminders, reminder_events>>]_vars

\* C10, amended: trigger_job answers "ignored" whenever the type is not
\* "reminder", or the body carries both reminder_id and task_id and the
\* reminder_id matches no Reminder or the Reminder is sent, cancelled or
\* failed; a body of type "reminder" that lacks reminder_id or task_id is
\* answered "error".  In all these cases nothing is published and no
\* Reminder row changes.
C10_IgnoredOrError ==
    [][\A d \in JobPayloads :
          LET malformed == /\ d.type = "reminder"
                           /\ (d.reminder_id = None \/ d.task_id = None)
              ignorable == \/ d.type # "reminder"
                           \/ /\ ~malformed
                              /\ \/ d.reminder_id \notin DOMAIN reminders
                                 \/ reminders[d.reminder_id].status
                                        \in {SENT, CANCELLED, FAILED}
          IN  (trigger_job(d) /\ (malformed \/ ignorable)) =>
                  /\ resp'.status = IF malformed THEN "error" ELSE "ignored"
                  /\ UNCHANGED <<reminders, reminder_events>>]_vars

\* C10 happens: trigger_job has answered "ignored" for a reminder that is
\* sent, cancelled or failed.
C10_Witness ==
    /\ resp.op = "trigger_job"
    /\ resp.status = "ignored"
    /\ resp.id \in DOMAIN reminders
    /\ reminders[resp.id].status \in {SENT, CANCELLED, FAILED}

\* C11 as stated: for a callback of type "reminder" that names an existing
\* pending reminder, trigger_job puts one reminder.triggered envelope for
\* that reminder on the reminders topic, answers "processed", and leaves
\* the reminder's status pending.
C11_PendingTriggerPublishes ==
    [][\A d \in JobPayloads :
          (/\ trigger_job(d)
           /\ d.type = "reminder"
           /\ d.task_id # None
           /\ d.reminder_id \in DOMAIN reminders
           /\ reminders[d.reminder_id].status = PENDING) =>
              /\ resp'.status = "processed"
              /\ reminders'[d.reminder_id].status = PENDING
              /\ reminder_events' =
                     Append(reminder_events,
                            publish_reminder_triggered(d.reminder_id,
                                                       d.task_id))]_vars

C12_CancelledStaysSilent ==
    [][\A r \in DOMAIN reminders :
          reminders[r].status = CANCELLED =>
              /\ reminders'[r].status = CANCELLED
              /\ Triggered(r)' = Triggered(r)]_vars

(***************************************************************************)
(* Properties of reminder creation and scheduling (CreateSpec)             *)
(***************************************************************************)
\* The offset in minutes a create request gives, as offset_minutes or as
\* the number and unit of its offset_string; None if it gives none.
OffsetOf(request) ==
    IF request.offset_minutes # None THEN request.offset_minutes
    ELSE IF request.offset_string # NoText
    THEN _convert_to_minutes(request.offset_string.value,
                             lower(request.offset_string.unit))
    ELSE None

\* The time a create request asks the reminder to be scheduled at, on a
\* task due at `due`: the scheduled_at it gives, or the due date minus the
\* offset it gives; None if it gives neither.
RequestedTime(request, due) ==
    IF request.scheduled_at # None THEN request.scheduled_at
    ELSE IF OffsetOf(request) # None /\ due # None
    THEN due - OffsetOf(request)
    ELSE None

\* The due date of the task a create request names, None if it has none
\* or does not exist.
DueOf(request) ==
    IF request.task_id \in DOMAIN tasks
    THEN tasks[request.task_id].due_date ELSE None

\* The step is a create request, through the route or the MCP tool.
CreateOps == {"create_reminder", "mcp.create_reminder"}
Creates(request, now) ==
    /\ resp'.op \in CreateOps
    /\ \/ \E s \in SchedulerStates : create_reminder(request, now, s)
       \/ mcp_create_reminder(request, now)

\* The response is a refusal: an HTTP error status or success=False.
Refused(r) == r.http >= 400 \/ r.success = "false"

\* The request is one the handler has no ground to refuse: its task exists
\* and has a due date, it gives a scheduled_at or an offset_minutes within
\* the range, and the time it asks for is later than the call.
Schedulable(request, now) ==
    /\ request.task_id \in DOMAIN tasks
    /\ tasks[request.task_id].due_date # None
    /\ request.offset_string = NoText
    /\ offset_minutes_field(request.offset_minutes)
    /\ RequestedTime(request, tasks[request.task_id].due_date) # None
    /\ RequestedTime(request, tasks[request.task_id].due_date) > now

\* The rows a step adds to the reminders table.
NewReminders == DOMAIN reminders' \ DOMAIN reminders

\* The reminder.scheduled envelopes the topic holds that carry job id j.
ScheduledEvents(j) ==
    {i \in DOMAIN reminder_events :
        /\ reminder_events[i].event_type = "reminder.scheduled"
        /\ reminder_events[i].dapr_job_id = j}

\* C14 as stated: when create_reminder runs for a schedulable request while
\* the job scheduler rejects the job or cannot be reached, the request
\* leaves a Reminder row with status failed and no job id, registers no
\* job, and its response shows that no job was scheduled.
C14_FailedSchedulingKeepsRow ==
    [][\A now \in CallTimes, s \in {"error", "unreachable"} :
          \A request \in RequestsAt[now] :
              (Schedulable(request, now) /\ create_reminder(request, now, s)) =>
                  /\ \E r \in NewReminders :
                        /\ reminders'[r].task_id = request.task_id
                        /\ reminders'[r].status = FAILED
                        /\ reminders'[r].dapr_job_id = NoJob
                  /\ jobs' = jobs
                  /\ resp'.http = 200
                  /\ resp'.dapr_job_id = NoJob]_vars

\* C15 as stated: when create_reminder runs for a schedulable request while
\* the job scheduler accepts the job, the job is registered and a
\* reminder.scheduled envelope carrying its id is put on the reminders
\* topic; while the scheduler rejects the job or cannot be reached, no
\* reminder.scheduled envelope is published.
C15_ScheduledEventOnSuccess ==
    [][\A now \in CallTimes, s \in SchedulerStates :
          \A request \in RequestsAt[now] :
              (Schedulable(request, now) /\ create_reminder(request, now, s)) =>
                  IF s = "up"
                  THEN \E j \in jobs' \ jobs :
                          /\ resp'.dapr_job_id = j
                          /\ ScheduledEvents(j)' # {}
                  ELSE reminder_events' = reminder_events]_vars

\* The jobs registered for the pair (task t, reminder r).
JobsOf(registered, t, r) ==
    {j \in registered : j[2] = t /\ j[3] = r}

\* C16 as stated: the job id of a pair (task_id, reminder_id) is the same
\* whenever it is computed, so DaprJobsClient.cancel_reminder asks for the
\* deletion of exactly the job schedule_reminder registered for the pair,
\* and once the scheduler has answered no job of the pair is left.
C16_CancelDeletesScheduledJob ==
    [][\A t \in OwnerIds, r \in ReminderIds, now \in Clock,
          s \in SchedulerStates :
          client_cancel_reminder(t, r, now, s) =>
              /\ \A j \in JobsOf(jobs, t, r) : resp'.job_delete = j
              /\ s = "up" => JobsOf(jobs', t, r) = {}]_vars

C20_ScheduledAtDueMinusOffset ==
    [][\A now \in CallTimes : \A request \in RequestsAt[now] :
          (/\ request.scheduled_at = None
           /\ \/ request.offset_string = NoText
              \/ request.offset_string = OffsetText("", 1, " ", "day", "")
           /\ OffsetOf(request) # None
           /\ OffsetOf(request) >= MIN_OFFSET_MINUTES
           /\ OffsetOf(request) <= MAX_OFFSET_MINUTES
           /\ DueOf(request) # None
           /\ DueOf(request) - OffsetOf(request) > now
           /\ Creates(request, now)) =>
              \E r \in NewReminders :
                  /\ reminders'[r].task_id = request.task_id
                  /\ reminders'[r].scheduled_at =
                         DueOf(request) - OffsetOf(request)]_vars

(***************************************************************************)
(* Properties of the recurrence calculator (UtilsSpec)                     *)
(***************************************************************************)
\* The last call was calculate_next_due_date with this frequency.
Calculated(frequency) ==
    /\ resp.op = "calculate_next_due_date"
    /\ resp.status = "returned"
    /\ resp.args[2] = frequency

\* C22: calculate_next_due_date with frequency monthly and a day_of_month
\* that is absent or in 0..31 returns a date in the calendar month after
\* current's month, on day min(target day, last day of that month), where
\* the target day is current's day when day_of_month is absent and the
\* month's last day when it is 0.
C22_MonthlyClamps ==
    Calculated("monthly") =>
        LET current == fields(resp.args[1])
            day_of_month == resp.args[4]
            next == fields(resp.value)
            year == IF current.month = 12 THEN current.year + 1
                                          ELSE current.year
            month == IF current.month = 12 THEN 1 ELSE current.month + 1
            last == days_in_month(year, month)
            target == IF day_of_month = NoDay THEN current.day
                      ELSE IF day_of_month = 0 THEN last
                      ELSE day_of_month
        IN  /\ next.year = year
            /\ next.month = month
            /\ next.day = IF target < last THEN target ELSE last

\* January 31 with no day_of_month: the next date is the last of February.
C22_Witness ==
    /\ Calculated("monthly")
    /\ resp.args[1] = datetime(2025, 1, 31, 0)
    /\ resp.args[4] = NoDay
    /\ resp.value = datetime(2025, 2, 28, 0)

\* C23 as stated: for every date in April and frequency monthly with
\* day_of_month = 31, calculate_next_due_date returns April 30.
C23_AprilToApril30 ==
    (/\ Calculated("monthly")
     /\ resp.args[4] = 31
     /\ fields(resp.args[1]).month = 4) =>
        /\ fields(resp.value).month = 4
        /\ fields(resp.value).day = 30

\* C23 amended: for every date in March and frequency monthly with
\* day_of_month = 31, calculate_next_due_date returns April 30 of the same
\* year; for a date in April it returns May 31.
C23_MarchToApril30 ==
    (/\ Calculated("monthly")
     /\ resp.args[4] = 31) =>
        LET current == fields(resp.args[1])
        IN  /\ current.month = 3 =>
                   resp.value = datetime(current.year, 4, 30, current.minute)
            /\ current.month = 4 =>
                   resp.value = datetime(current.year, 5, 31, current.minute)

\* March 31 with day_of_month 31: April 30.
C23_Witness ==
    /\ Calculated("monthly")
    /\ resp.args[1] = datetime(2024, 3, 31, 570)
    /\ resp.args[4] = 31
    /\ resp.value = datetime(2024, 4, 30, 570)

\* C24: calculate_next_due_date with frequency weekly and a target weekday
\* w returns the earliest date strictly after current that falls on w, 1
\* to 7 days later and 7 when current falls on w; with no weekday it
\* returns current + 7 days; the time of day is that of current.
C24_WeeklyNextWeekday ==
    Calculated("weekly") =>
        LET current == resp.args[1]
            w == resp.args[3]
            later == resp.value - current
        IN  /\ later \in {timedelta(n) : n \in 1..7}
            /\ resp.value % MINUTES_PER_DAY = current % MINUTES_PER_DAY
            /\ w = NoDay => later = timedelta(7)
            /\ w # NoDay =>
                   /\ weekday(resp.value) = w
                   /\ (later = timedelta(7)) <=> (weekday(current) = w)

\* A Monday asked for its next Monday: seven days later.
C24_Witness ==
    /\ Calculated("weekly")
    /\ weekday(resp.args[1]) = 0
    /\ resp.args[3] = 0
    /\ resp.value = resp.args[1] + timedelta(7)

(***************************************************************************)
(* Properties of the recurrence parser (UtilsSpec)                         *)
(***************************************************************************)
\* The last call was to `op` and it has come back.
CallReturned(op) ==
    /\ resp.op = op
    /\ resp.status = "returned"

\* The texts that name a weekday: the name or abbreviation alone, after
\* "on" and after "every".
WeekdayTexts(name) ==
    {<<Word(name)>>, <<Word("on"), Word(name)>>,
     <<Word("every"), Word(name)>>}

LastDayTexts ==
    {<<Word("last"), Word("day")>>,
     <<Word("end"), Word("of"), Word("month")>>}

\* The result is valid and has this frequency and these selectors.
Parsed(result, frequency, day_of_week, day_of_month) ==
    /\ result.raises = ""
    /\ result.valid
    /\ result.frequency = frequency
    /\ result.day_of_week = day_of_week
    /\ result.day_of_month = day_of_month

\* C25: for every text that parse_recurrence_pattern accepts,
\* from_pattern_string(to_pattern_string(parse(text))) has the frequency,
\* day_of_week and day_of_month of parse(text); the accepted texts include
\* every weekday (Monday = 0 too) and the last day of the month
\* (day_of_month 0).
C25_RoundTrip ==
    CallReturned("round_trip") =>
        LET text == resp.args[1]
            parsed == parse_recurrence_pattern(text)
            back == resp.value
        IN  /\ (parsed.raises = "" /\ parsed.valid) =>
                   Parsed(back, parsed.frequency, parsed.day_of_week,
                          parsed.day_of_month)
            /\ \A name \in DOMAIN WEEKDAY_MAP :
                   text \in WeekdayTexts(name) =>
                       Parsed(back, "weekly", WEEKDAY_MAP[name], NoDay)
            /\ text \in LastDayTexts => Parsed(back, "monthly", NoDay, 0)

\* C26: parse_recurrence_pattern returns a result and never raises, and
\* maps the vocabulary to its family and selector: "daily", "every day",
\* "each day", "everyday" to daily; "weekly" to weekly; a weekday name or
\* abbreviation, alone or after "on" or "every", to weekly with that
\* weekday, written weekly:<name>; "monthly" to monthly; a day number 1..31
\* to monthly with that day; "last day" and "end of month" to monthly with
\* day_of_month 0; any other text such as "banana" to valid = false with a
\* non-empty error message.
C26_VocabularyParsed ==
    CallReturned("parse_recurrence_pattern") =>
        LET text == resp.args[1]
            result == resp.value
        IN  /\ result.raises = ""
            /\ text \in {<<Word("daily")>>, <<Word("everyday")>>,
                          <<Word("every"), Word("day")>>,
                          <<Word("each"), Word("day")>>} =>
                   Parsed(result, "daily", NoDay, NoDay)
            /\ text = <<Word("weekly")>> =>
                   Parsed(result, "weekly", NoDay, NoDay)
            /\ \A name \in DOMAIN WEEKDAY_MAP :
                   text \in WeekdayTexts(name) =>
                       /\ Parsed(result, "weekly", WEEKDAY_MAP[name], NoDay)
                       /\ to_pattern_string(result).frequency = "weekly"
                       /\ to_pattern_string(result).name \in DOMAIN WEEKDAY_MAP
                       /\ WEEKDAY_MAP[to_pattern_string(result).name]
                              = WEEKDAY_MAP[name]
            /\ text = <<Word("monthly")>> =>
                   Parsed(result, "monthly", NoDay, NoDay)
            /\ \A n \in 1..31 :
                   text = <<Numeral(n, "")>> =>
                       Parsed(result, "monthly", NoDay, n)
            /\ text \in LastDayTexts => Parsed(result, "monthly", NoDay, 0)
            /\ text = <<Word("banana")>> =>
                   /\ ~result.valid
                   /\ result.error_message # ""

(***************************************************************************)
(* Properties of the offset parser (UtilsSpec)                             *)
(***************************************************************************)
\* C27: parse_reminder_offset accepts "30 minutes before" (offset_minutes
\* 30), "1 hour" (60), "2 days before" (2880), the ISO-style durations
\* "PT30M" (30) and "P1D" (1440) and the shorthands "30m", "1h", "1d",
\* "1w" (30, 60, 1440, 10080), each with valid = true; a text it cannot
\* parse yields valid = false and no offset.  (The display string and the
\* error message are not part of the result here.)
C27_OffsetVocabulary ==
    CallReturned("parse_reminder_offset") =>
        LET text == resp.args[1]
            result == resp.value
            accepted(t, minutes) ==
                text = t => (result.valid /\ result.offset_minutes = minutes)
        IN  /\ accepted(OffsetText("", 30, " ", "minutes", "before"), 30)
            /\ accepted(OffsetText("", 1, " ", "hour", ""), 60)
            /\ accepted(OffsetText("", 2, " ", "days", "before"), 2880)
            /\ accepted(OffsetText("PT", 30, "", "M", ""), 30)
            /\ accepted(OffsetText("P", 1, "", "D", ""), 1440)
            /\ accepted(OffsetText("", 30, "", "m", ""), 30)
            /\ accepted(OffsetText("", 1, "", "h", ""), 60)
            /\ accepted(OffsetText("", 1, "", "d", ""), 1440)
            /\ accepted(OffsetText("", 1, "", "w", ""), 10080)
            /\ text = OffsetText("", None, "", "banana", "") =>
                   (~result.valid /\ result.offset_minutes = None)

(***************************************************************************)
(* Properties of the publisher (UtilsSpec)                                 *)
(***************************************************************************)
\* The last call was a publish call and it has come back.
Published ==
    /\ resp.op \in {"publish_task_completed", "publish_reminder_triggered"}
    /\ resp.status = "returned"

\* The envelopes the bus has accepted on the topic of the last call.
Accepted ==
    IF resp.op = "publish_task_completed" THEN task_events
                                          ELSE reminder_events

Requested ==
    IF resp.op = "create_task" THEN from_pattern_string(resp.args[1])
                               ELSE parse_recurrence_pattern(resp.args[1])

\* The last request asked for a task with a day selector, and the store
\* did not fail it.
RequestedWithSelector ==
    /\ resp.op \in {"create_task", "mcp.create_recurring_task"}
    /\ resp.http # 500
    /\ Requested.raises = ""
    /\ Requested.valid
    /\ Requested.day_of_week # NoDay \/ Requested.day_of_month # NoDay

\* C21: a task created with a recurrence pattern that has a day selector is
\* stored, and completing it gives the next occurrence the due date
\* calculate_next_due_date(due, frequency, day_of_week, day_of_month) of its
\* due date and its decoded pattern (due 2025-01-01T00:00Z with monthly:31
\* gives 2025-02-28T00:00Z).
C21_SelectorDecidesNextDue ==
    RequestedWithSelector =>
        /\ resp.id \in DOMAIN tasks
        /\ \A now \in Times :
              LET row == tasks[resp.id]
                  rows == complete_rows(tasks, resp.id, next_task_id, now)
              IN  rows[next_task_id].due_date =
                      calculate_next_due_date(row.due_date,
                          Requested.frequency, Requested.day_of_week,
                          Requested.day_of_month)

\* The step is a delete request for task t that answered success.
Deleted(t) ==
    /\ resp'.op \in {"delete_task", "mcp.delete_task"}
    /\ resp'.success = "true"
    /\ resp'.id = t

\* The entries of the log that name a task other than t.
EntriesOfOthers(log, t) == SelectSeq(log, LAMBDA entry : entry.task_id # t)

\* The entries of the log for one event of task t.
EntriesFor(log, event_type, t) ==
    SelectSeq(log, LAMBDA entry :
                       entry.event_type = event_type /\ entry.task_id = t)

\* C29: a successful delete of task T removes T, T's reminders and the
\* audit entries T had, and leaves every other Task row in place, the rows
\* whose parent_task_id is T among them, with their reminders and entries.
C29_DeleteKeepsChildren ==
    [][\A t \in TaskIds :
          Deleted(t) =>
              /\ DOMAIN tasks' = DOMAIN tasks \ {t}
              /\ \A u \in DOMAIN tasks' : tasks'[u] = tasks[u]
              /\ ChildrenOf(tasks', t) = ChildrenOf(tasks, t)
              /\ DOMAIN reminders' =
                     {r \in DOMAIN reminders : reminders[r].task_id # t}
              /\ EntriesOfOthers(audit', t) = EntriesOfOthers(audit, t)
              /\ \A i \in 1..Len(audit') :
                     audit'[i].task_id = t
                         => audit'[i].event_type = "task.deleted"]_vars

\* C30: every successful create, complete and delete of TaskService adds
\* exactly one audit entry for its event, the creation of a next occurrence
\* adds exactly one entry for the new row, and the entry of a completion
\* records the old status, the new status and the recurrence of the task.
C30_OneEntryPerMutation ==
    [][/\ resp'.op = "create_task" /\ resp'.http = 200
          => /\ Len(EntriesFor(audit', "task.created", resp'.id)) = 1
             /\ Len(audit') = Len(audit) + 1
       /\ \A t \in TaskIds :
             Completed(t)
                 => LET entries == EntriesFor(audit', "task.completed", t)
                        child == resp'.next_occurrence
                    IN  /\ Len(entries) = 1
                        /\ entries[1].data.old_status = tasks[t].status
                        /\ entries[1].data.new_status = tasks'[t].status
                        /\ entries[1].data.recurrence = tasks[t].recurrence
                        /\ entries[1].data.is_recurring = (child # None)
                        /\ child # None
                              => Len(EntriesOfOthers(audit', t))
                                     = Len(EntriesOfOthers(audit, t)) + 1
                        /\ child # None
                              => \E i \in 1..Len(audit') :
                                     audit'[i].task_id = child
       /\ \A t \in TaskIds :
             resp'.op = "delete_task" /\ resp'.success = "true" /\ resp'.id = t
                 => Len(EntriesFor(audit', "task.deleted", t)) = 1]_vars

(***************************************************************************)
(* Properties of the notification service (NotifySpec)                     *)
(***************************************************************************)
\* The step is a delivery that process_event handles from its first line
\* to its last, for a payload of the given producer.
Processed(producer) ==
    /\ resp'.op = "process_event"
    /\ resp'.detail = producer
    /\ workers'.handled = workers.handled + 1
    /\ workers'.sends = workers.sends

\* The sockets registered for the user an id names, whatever the type of
\* the id.
SocketsOf(connections, user_id) ==
    LET key == UserId("str", user_id.id)
    IN  IF key \in DOMAIN connections THEN connections[key] ELSE {}

\* C31: when a reminder.triggered envelope published by the backend is
\* consumed and its user has connections, the notification is sent on each
\* of them and notifications_sent grows by the number of successful sends;
\* when the user has none, nothing is sent and notifications_sent keeps its
\* value.
C31_ConnectedUserIsNotified ==
    [][Processed("backend") =>
          LET sockets == SocketsOf(workers.active_connections,
                                   resp'.args[1])
          IN  /\ resp'.args[2] = sockets
              /\ workers'._stats.notifications_sent
                     = workers._stats.notifications_sent + resp'.value]_vars

\* process_event has returned from a delivery that reached a socket.
Delivered == resp.op = "process_event" /\ resp.value > 0

\* process_event has returned from a delivery whose every send raised.
DeliveryFailed ==
    resp.op = "process_event" /\ resp.args[2] # {} /\ resp.value = 0

\* The topic holds an envelope of the type for the task.
Emitted(event_type, task_id) ==
    \E i \in 1..Len(reminder_events) :
        /\ reminder_events[i].event_type = event_type
        /\ reminder_events[i].task_id = task_id

\* C32: once the notification of a pending reminder whose trigger fired
\* has been delivered, the reminder eventually has status sent and a
\* reminder.sent event is on the topic; once the delivery has failed, a
\* reminder.failed event eventually is.
C32_DeliveredBecomesSent ==
    /\ Delivered ~> (/\ \A r \in DOMAIN reminders : reminders[r].status = SENT
                     /\ Emitted("reminder.sent", 1))
    /\ DeliveryFailed ~> Emitted("reminder.failed", 1)

\* A call of send_personal_message has returned to the caller that
\* answered last.
SendReturned == resp.op \in {"process_event", "send_notification"}

\* The sockets the registry holds.
Registered(connections) == UNION {connections[u] : u \in DOMAIN connections}

\* C36: send_personal_message returns a count and does not raise, also
\* when sockets open and close while it is suspended: the sockets whose
\* send raised are out of the registry and not counted, and every other
\* socket the user had was sent to and counted.
C36_SendNeverRaises ==
    SendReturned =>
        /\ resp.args[3] \subseteq resp.args[2]
        /\ resp.value = Cardinality(resp.args[2] \ resp.args[3])
        /\ resp.args[3] \cap Registered(workers.active_connections) = {}

\* A send over two sockets returned 1: one send raised, on a socket whose
\* peer went while the call was suspended, and the other went through.
C36_Witness ==
    /\ SendReturned
    /\ Cardinality(resp.args[2]) = 2
    /\ resp.value = 1
    /\ \E ws \in resp.args[3] : ws \in workers.gone

\* C37: the consumer's counters are consistent however its handlers
\* interleave with each other and with the sockets: events_received +
\* errors_count is the number of deliveries handled, and notifications_sent
\* the number of sends that succeeded in them.
C37_CountersConsistent ==
    /\ workers._stats.events_received + workers._stats.errors_count
           = workers.handled
    /\ workers._stats.notifications_sent = workers.successful

\* One delivery has been handled and has sent, while a second handler is
\* suspended after a send of its own.
C37_Witness ==
    /\ workers.handled = 1
    /\ workers._stats.notifications_sent >= 1
    /\ \E c \in Callers :
          /\ workers.sends[c].caller = "process_event"
          /\ workers.sends[c].successful >= 1

\* C39: when the peer of one socket goes, that socket alone leaves the
\* registry: the other sockets of its user stay registered, so
\* is_user_connected stays true while there are any, and the sets of the
\* other users keep their sockets.
C39_OnlyThatSocketLeaves ==
    [][resp'.op = "disconnect" /\ workers'.gone # workers.gone =>
          \A u \in Users :
              /\ SocketsOf(workers'.active_connections, u)
                     = SocketsOf(workers.active_connections, u)
                           \ {resp'.args[1]}
              /\ is_user_connected(workers'.active_connections, u)
                     <=> SocketsOf(workers'.active_connections, u) # {}]_vars

\* C40: parent_task_id is acyclic in every reachable state: the parent of
\* a task is a task created before it (a smaller id) and no request
\* changes the parent of a row, so get_recurring_chain comes to an end for
\* every task of the table.
C40_ParentsAcyclic ==
    /\ [](\A t \in DOMAIN tasks :
             /\ tasks[t].parent_task_id # None => tasks[t].parent_task_id < t
             /\ get_recurring_chain(tasks, t).terminates)
    /\ [][\A t \in DOMAIN tasks \cap DOMAIN tasks' :
             tasks'[t].parent_task_id = tasks[t].parent_task_id]_vars

\* A chain of two rows, the second one the next occurrence of the first,
\* which get_recurring_chain returns from either end.
C40_Witness ==
    /\ 2 \in DOMAIN tasks
    /\ tasks[2].parent_task_id = 1
    /\ tasks[1].status = COMPLETED
    /\ get_recurring_chain(tasks, 2).chain = <<1, 2>>
    /\ get_recurring_chain(tasks, 1).chain = <<1, 2>>

\* The request gives none of the three scheduling inputs.
GivesNothing(request) ==
    /\ request.offset_minutes = None
    /\ request.offset_string = NoText
    /\ request.scheduled_at = None

RecurringCompletion(data) ==
    /\ data.event_type = "task.completed"
    /\ data.task_data.recurrence # "none"

\* The task-creation calls the worker has made: process_event counts each
\* one in events_processed, whether it succeeded or not.
CreationCalls == stats.events_processed

\* C33 as stated: a delivery of a task.completed envelope of the backend
\* for a task whose recurrence is not none makes exactly one
\* task-creation call, and a delivery of any other envelope makes none.
C33_OneCallPerRecurringCompletion ==
    [][\A i \in 1..MaxAudit :
          process_event(i) =>
              IF RecurringCompletion(task_events[i])
              THEN CreationCalls' = CreationCalls + 1
              ELSE CreationCalls' = CreationCalls]_vars

\* The task ids of the envelopes on the topic that process_event takes as
\* far as the task-creation call.
CompletionsToRepeat ==
    {Get(task_events[i], "task_id", 0) :
        i \in {k \in DOMAIN task_events :
                  wants_next_occurrence(task_events[k])}}

\* C34 as stated: however often the bus delivers a task.completed
\* envelope with a non-empty recurrence, the worker makes at most one
\* task-creation call for the task it names.
C34_RedeliveryMakesOneCall ==
    CreationCalls <= Cardinality(CompletionsToRepeat)

====
